---- MODULE Spec2Model ----
(***************************************************************************)
(* G1 written-card queues (G1WrittenCardQueue, G1WrittenCardQueueSet), the *)
(* per-thread dirty card queues they feed, and the safepoint operations    *)
(* on them (g1BarrierSet.cpp and the sources concatenated with it).        *)
(*                                                                         *)
(* Arrays are 0-based in the source and 1-based here: slot k of a buffer   *)
(* is position k + 1 of the sequence that models it.  A queue's index is   *)
(* kept 0-based, as in the source.                                         *)
(***************************************************************************)
EXTENDS Integers, Sequences, FiniteSets, TLC

(***************************************************************************)
(* Bounds.  The capacities are the source's sizes scaled down.             *)
(***************************************************************************)
\* Written addresses are 0 .. NumAddrs - 1.
NumAddrs == 4
\* G1CardTable::card_shift() (9 in the product).
CardShift == 1
\* ARRAY_SIZE(_inline_buffer), 36 in the source.
InlineCapacity == 3
\* Capacity of a buffer of the written-card allocator (G1WrittenCardBufferSize).
BufferCapacity == 3
\* Capacity of a dirty card buffer (G1UpdateBufferSize).
DcqCapacity == 2
\* Buffers the written-card allocator can have outstanding, per mutator.
MaxNodes == 2
\* Cap on the per-thread statistics counters: an operation that adds to a
\* counter starts only while the counter is below it.
MaxStat == 1
\* Longest sequence of entries a marking function is applied to on its own.
MaxLen == 3
\* Objects with an IntrusiveListEntry member.
NumElems == 3
\* IntrusiveList objects, all over the same entry member.
NumLists == 2

(***************************************************************************)
(* Program constants.                                                      *)
(***************************************************************************)
\* ARRAY_SIZE(_indirect._initial)
InitialCapacity == 2
\* const size_t NoMatchingCard = SIZE_MAX: no card index has this value.
NoMatchingCard == -1

\* Content of a slot nothing has been stored into.
Uninit == NoMatchingCard - 1

Clean == "clean"
Dirty == "dirty"
Young == "young"
CardValues == {Clean, Dirty, Young}

FilterNone == "None"
FilterYoung == "Young"
FilterPrevious == "Previous"
Filters == {FilterNone, FilterYoung, FilterPrevious}

\* Storage/overflow flavours: G1UseInlineWrittenCardBuffers, and
\* G1DeferDirtyingWrittenCards for the indirect layout.
Modes == {"inline", "indirect", "deferred"}

Addrs == 0 .. (NumAddrs - 1)

\* reinterpret_cast<size_t>(written[i]) >> G1CardTable::card_shift()
CardIndex(addr) == addr \div (2 ^ CardShift)

CardIdx == {CardIndex(a) : a \in Addrs}

\* byte_map_base(): card pointers are disjoint from addresses and indices.
CtBase == NumAddrs + CardShift

\* ct_base + card
CardPtr(card) == CtBase + card

Ptrs == {CardPtr(c) : c \in CardIdx}

(***************************************************************************)
(* Dirty card queue: a fill-downward buffer and its index.  A queue with   *)
(* no buffer has buffer <<>> (nullptr) and index 0.                        *)
(***************************************************************************)
NullDcq == [buffer |-> <<>>, index |-> 0]

FreshDcqBuffer == [i \in 1 .. DcqCapacity |-> Uninit]

EmptyDcq == [buffer |-> FreshDcqBuffer, index |-> DcqCapacity]

\* PtrQueue::is_empty: index == capacity; a queue with no buffer has capacity 0.
DcqIsEmpty(q) == q.index = Len(q.buffer)

\* The entries of a dirty card queue, oldest first.
DcqEntries(q) == [i \in 1 .. (Len(q.buffer) - q.index) |-> q.buffer[Len(q.buffer) + 1 - i]]

\* The entries of a handed-off (full) buffer, oldest first.
BufferEntries(b) == [i \in 1 .. Len(b) |-> b[Len(b) + 1 - i]]

\* dirty_buffer[--dirty_index] = p
DcqStore(q, p) == [buffer |-> [q.buffer EXCEPT ![q.index] = p], index |-> q.index - 1]

\* G1DirtyCardQueueSet::enqueue: store when there is room; with index 0 either
\* install a first buffer (no buffer yet) or hand the full buffer to the set
\* and install a fresh one; then store the card.
DcqsEnqueue(q, p) ==
  IF q.index > 0
    THEN [dcq |-> DcqStore(q, p), handed |-> <<>>]
    ELSE IF q.buffer = <<>>
      THEN [dcq |-> DcqStore(EmptyDcq, p), handed |-> <<>>]
      ELSE [dcq |-> DcqStore(EmptyDcq, p), handed |-> <<q.buffer>>]

(***************************************************************************)
(* Refinement statistics: the written-card counters.                       *)
(***************************************************************************)
ZeroStats == [written_cards |-> 0, written_cards_dirtied |-> 0, written_cards_filtered |-> 0]

inc_written_cards(s, n) == [s EXCEPT !.written_cards = @ + n]

inc_written_cards_dirtied(s, n) == [s EXCEPT !.written_cards_dirtied = @ + n]

inc_written_cards_filtered(s, n) == [s EXCEPT !.written_cards_filtered = @ + n]

(***************************************************************************)
(* G1WrittenCardQueueSet::enqueue_clean_cards.  The record e carries the   *)
(* card table, the dirty card queue under the loop's dirty_buffer and      *)
(* dirty_index, the buffers handed to the dirty card queue set, and the    *)
(* loop's flushed, dirtied and filtered.                                   *)
(***************************************************************************)
EccStart(cards, dcq) ==
  [cards |-> cards, dcq |-> dcq, handed |-> <<>>,
   flushed |-> FALSE, dirtied |-> 0, filtered |-> 0]

\* Atomic::load(p)
EccLoad(cards, p) == cards[p]

\* A test that lets every card but a young one through.
EccIsNotYoung(v) == v # Young

\* The test applied to the loaded value: enqueue only a clean card.
EccIsClean(v) == v = Clean

\* A card that is not clean passed over without being counted.
EccFilteredNotCounted(e) == e

\* filtered += 1
EccFiltered(e) == [e EXCEPT !.filtered = @ + 1]

\* The store of dirty without the enqueue of the card.
EccDirtyWithoutEnqueue(e, p) ==
  [e EXCEPT !.cards = [e.cards EXCEPT ![p] = Dirty], !.dirtied = @ + 1]

\* Atomic::store(p, dirty_card_val()); dirtied += 1; then the bulk enqueue,
\* or dcqs.enqueue when the queue is full.
EccDirtyAndEnqueue(e, p) ==
  LET stored == [e EXCEPT !.cards = [e.cards EXCEPT ![p] = Dirty], !.dirtied = @ + 1]
  IN IF e.dcq.index > 0
       THEN [stored EXCEPT !.dcq = DcqStore(e.dcq, p)]
       ELSE LET r == DcqsEnqueue(e.dcq, p)
            IN [stored EXCEPT !.dcq = r.dcq, !.handed = @ \o r.handed, !.flushed = TRUE]

EccEntry(e, p) ==
  IF EccIsClean(EccLoad(e.cards, p)) THEN EccDirtyAndEnqueue(e, p) ELSE EccFiltered(e)

RECURSIVE EccLoop(_, _, _)
EccLoop(written, i, e) ==
  IF i > Len(written) THEN e ELSE EccLoop(written, i + 1, EccEntry(e, written[i]))

\* The counters added to the statistics when the loop is over.
EccFinish(e, stats) ==
  inc_written_cards_filtered(inc_written_cards_dirtied(stats, e.dirtied), e.filtered)

enqueue_clean_cards(written, cards, dcq, stats) ==
  LET e == EccLoop(written, 1, EccStart(cards, dcq))
  IN [cards |-> e.cards, dcq |-> e.dcq, handed |-> e.handed,
      stats |-> EccFinish(e, stats), ret |-> e.flushed,
      dirtied |-> e.dirtied, filtered |-> e.filtered]

enqueue_clean_cards_helper(written, cards, dcq, stats) ==
  IF Len(written) > 0
    THEN enqueue_clean_cards(written, cards, dcq, stats)
    ELSE [cards |-> cards, dcq |-> dcq, handed |-> <<>>, stats |-> stats,
          ret |-> FALSE, dirtied |-> 0, filtered |-> 0]

(***************************************************************************)
(* mark_cards_dirty_XXX_filtered: the transform of the written entries     *)
(* into card pointers, done in place.  ptrs is what is passed on to        *)
(* enqueue_clean_cards_helper, region the buffer slots afterwards.         *)
(***************************************************************************)
InPlace(written, kept) ==
  [i \in 1 .. Len(written) |-> IF i <= Len(kept) THEN kept[i] ELSE written[i]]

\* The loop without "previous = card": no entry matches, none is dropped.
RECURSIVE NoneFilteredLoopNoPrevious(_, _, _, _)
NoneFilteredLoopNoPrevious(written, i, previous, kept) ==
  IF i > Len(written) THEN kept
  ELSE LET card == CardIndex(written[i])
       IN IF previous = card
            THEN NoneFilteredLoopNoPrevious(written, i + 1, previous, kept)
            ELSE NoneFilteredLoopNoPrevious(written, i + 1, previous,
                                            Append(kept, CardPtr(card)))

RECURSIVE NoneFilteredLoop(_, _, _, _)
NoneFilteredLoop(written, i, previous, kept) ==
  IF i > Len(written) THEN kept
  ELSE LET card == CardIndex(written[i])
       IN IF previous = card
            THEN NoneFilteredLoop(written, i + 1, previous, kept)
            ELSE NoneFilteredLoop(written, i + 1, card, Append(kept, CardPtr(card)))

NoneFilteredTransform(written) ==
  LET kept == NoneFilteredLoop(written, 1, NoMatchingCard, <<>>)
  IN [ptrs |-> kept, region |-> InPlace(written, kept),
      dropped |-> Len(written) - Len(kept)]

YoungFilteredTransform(written) ==
  [ptrs |-> written, region |-> written, dropped |-> 0]

PreviousFilteredTransform(written) ==
  LET p == [i \in 1 .. Len(written) |-> CardPtr(written[i])]
  IN [ptrs |-> p, region |-> p, dropped |-> 0]

\* The Marker a handler passes, or the switch on filter_mechanism().
FilterTransform(f, written) ==
  CASE f = FilterNone -> NoneFilteredTransform(written)
    [] f = FilterYoung -> YoungFilteredTransform(written)
    [] f = FilterPrevious -> PreviousFilteredTransform(written)

\* mark_cards_dirty_XXX_filtered as a whole: transform, count the dropped
\* entries as filtered, enqueue the clean cards.
mark_cards_dirty_filtered(f, written, cards, dcq, stats) ==
  LET t == FilterTransform(f, written)
      r == enqueue_clean_cards_helper(t.ptrs, cards, dcq,
                                      inc_written_cards_filtered(stats, t.dropped))
  IN [region |-> t.region, ptrs |-> t.ptrs, dropped |-> t.dropped,
      cards |-> r.cards, dcq |-> r.dcq, handed |-> r.handed,
      stats |-> r.stats, ret |-> r.ret]

(***************************************************************************)
(* G1WrittenCardQueue: kind says which storage the queue is using, the     *)
(* inline buffer, the indirect layout's initial buffer, or a buffer of the *)
(* allocator (node is its BufferNode, 0 otherwise).                        *)
(***************************************************************************)
\* The capacity of the storage in use, before the Previous adjustment.
RawCapacity(q) ==
  CASE q.kind = "inline" -> InlineCapacity
    [] q.kind = "initial" -> InitialCapacity
    [] q.kind = "node" -> BufferCapacity

\* The handlers' size_adjust template argument, and current_capacity's
\* "capacity -= 1" for Filter::Previous.
size_adjust(f) == IF f = FilterPrevious THEN 1 ELSE 0

current_capacity(q, f) == RawCapacity(q) - size_adjust(f)

\* A set_index that stores nothing.
KeepIndex(q, new_index) == q

set_index(q, new_index) == [q EXCEPT !.index = new_index]

\* size()
WcqSize(q, f) == current_capacity(q, f) - q.index

is_empty(q, f) == q.index = current_capacity(q, f)

\* A reset that forgets the Previous filter's reserved slot.
ResetToRawCapacity(q, f) == set_index(q, RawCapacity(q))

reset(q, f) == set_index(q, current_capacity(q, f))

\* (reinterpret_cast<size_t*>(buffer))[slot] = NoMatchingCard
StoreNoMatchingCard(buf, slot) == [buf EXCEPT ![slot + 1] = NoMatchingCard]

UninitBuffer(n) == [i \in 1 .. n |-> Uninit]

\* G1WrittenCardQueue::G1WrittenCardQueue()
NewWrittenCardQueue(mode, f) ==
  LET q0 == IF mode = "inline"
              THEN [kind |-> "inline", node |-> 0, buf |-> UninitBuffer(InlineCapacity), index |-> 0]
              ELSE [kind |-> "initial", node |-> 0, buf |-> UninitBuffer(InitialCapacity), index |-> 0]
      cap == current_capacity(q0, f)
      q1 == set_index(q0, cap)
  IN IF f = FilterPrevious
       THEN [q1 EXCEPT !.buf = StoreNoMatchingCard(q1.buf, cap)]
       ELSE q1

\* Slots from .. from + size - 1 of a buffer.
Region(buf, from, size) == SubSeq(buf, from + 1, from + size)

\* The buffer with those slots replaced.
WriteRegion(buf, from, region) ==
  [i \in 1 .. Len(buf) |->
     IF i > from /\ i <= from + Len(region) THEN region[i - from] ELSE buf[i]]

\* G1WrittenCardQueue::mark_cards_dirty up to the call of the filter's
\* transform: the new index, and the slots [from, from + size) to transform
\* (run is false where the source returns false without transforming).
WcqMarkPrepare(q, f) ==
  LET capacity == RawCapacity(q)
      idx == q.index
  IN IF capacity > idx
       THEN IF f = FilterPrevious
              THEN [q |-> set_index(q, capacity - 1), from |-> idx,
                    size |-> capacity - idx - 1, run |-> (capacity - idx - 1) # 0]
              ELSE [q |-> set_index(q, capacity), from |-> idx,
                    size |-> capacity - idx, run |-> TRUE]
       ELSE [q |-> q, from |-> idx, size |-> 0, run |-> FALSE]

\* G1WrittenCardQueue::mark_cards_dirty
wcq_mark_cards_dirty(q, f, cards, dcq, stats) ==
  LET p == WcqMarkPrepare(q, f)
  IN IF p.run
       THEN LET r == mark_cards_dirty_filtered(f, Region(q.buf, p.from, p.size),
                                               cards, dcq, stats)
            IN [wcq |-> [p.q EXCEPT !.buf = WriteRegion(q.buf, p.from, r.region)],
                cards |-> r.cards, dcq |-> r.dcq, handed |-> r.handed,
                stats |-> r.stats, ret |-> r.ret]
       ELSE [wcq |-> p.q, cards |-> cards, dcq |-> dcq, handed |-> <<>>,
             stats |-> stats, ret |-> FALSE]

(***************************************************************************)
(* BufferNode and G1WrittenCardQueueSet.  buffer_list is the lock-free     *)
(* stack, its top first; allocated is the set of nodes the allocator has   *)
(* handed out and not got back.                                            *)
(***************************************************************************)
Mutators == {"m1", "m2"}
Refiners == {"r1"}
Threads == Mutators \cup Refiners

NodeIds == 1 .. (MaxNodes * Cardinality(Mutators))

\* BufferNode::make_node_from_buffer(buffer, index)
make_node_from_buffer(id, buf, index) == [id |-> id, buf |-> buf, index |-> index]

\* BufferNode::size(): capacity - index
NodeSize(n) == Len(n.buf) - n.index

RECURSIVE SumSizes(_)
SumSizes(list) == IF list = <<>> THEN 0 ELSE NodeSize(Head(list)) + SumSizes(Tail(list))

\* BufferNode::Allocator::allocate(): some node not outstanding.
AllocateId(alloc) == CHOOSE id \in NodeIds \ alloc : \A other \in NodeIds \ alloc : id <= other

\* A buffer never given back.
DeallocateNothing(alloc, id) == alloc

\* _allocator->release(node)
deallocate_buffer(alloc, id) == alloc \ {id}

\* _buffer_list.push(*node)
Push(list, n) == <<n>> \o list

\* The whole node passed to the transform, whatever the filter.
WholeNodeSize(n, f) == NodeSize(n)

\* The entries of a completed buffer the filter's transform is run on.
WcqsTransformSize(n, f) == NodeSize(n) - size_adjust(f)

\* G1WrittenCardQueueSet::mark_cards_dirty, with take_completed_buffer.
wcqs_mark_cards_dirty(list, num, alloc, f, cards, dcq, stats) ==
  IF list = <<>>
    THEN [ret |-> FALSE, list |-> list, num_cards |-> num, allocated |-> alloc,
          cards |-> cards, dcq |-> dcq, handed |-> <<>>, stats |-> stats]
    ELSE LET node == Head(list)
             r == mark_cards_dirty_filtered(
                    f, Region(node.buf, node.index, WcqsTransformSize(node, f)),
                    cards, dcq, stats)
         IN [ret |-> TRUE, list |-> Tail(list), num_cards |-> num - NodeSize(node),
             allocated |-> deallocate_buffer(alloc, node.id),
             cards |-> r.cards, dcq |-> r.dcq, handed |-> r.handed, stats |-> r.stats]

(***************************************************************************)
(* The state of the collector's post-barrier logs.                         *)
(***************************************************************************)
VARIABLES
  filter,        \* G1WrittenCardFilter
  mode,          \* inline, indirect, or indirect with deferred dirtying
  cards,         \* the card table, by card pointer
  wcq,           \* G1ThreadLocalData::written_card_queue(t)
  dcq,           \* G1ThreadLocalData::dirty_card_queue(t)
  crdcq,         \* G1ConcurrentRefineThread::dirty_card_queue()
  stats,         \* G1ThreadLocalData::refinement_stats(t)
  num_cards,     \* G1WrittenCardQueueSet::_num_cards
  buffer_list,   \* G1WrittenCardQueueSet::_buffer_list
  should_mark,   \* G1WrittenCardQueueSet::_mutator_should_mark_cards_dirty
  allocated,     \* nodes of the written-card allocator that are outstanding
  completed,     \* completed buffers held by the dirty card queue set
  pc,            \* where each thread is in the operation it is running
  loc,           \* that operation's local variables
  last_store,    \* the latest clean-to-dirty store: value loaded, value replaced
  heap,          \* the addresses the mutators write to
  live,          \* the threads that run
  call,          \* a function applied on its own: its arguments
  ret,           \* and its results
  task,          \* G1PreEvacuateCollectionSetBatchTask: its sub-tasks and workers
  prot,          \* a thread's crash protection and its protected calls
  ilist          \* IntrusiveList objects, the entries of their elements, the last call

queue_vars == <<wcq, dcq, crdcq, stats>>
set_vars == <<num_cards, buffer_list, should_mark, allocated>>
config_vars == <<filter, mode, heap, live, task, prot, ilist>>
fn_vars == <<call, ret>>
vars == <<filter, mode, cards, wcq, dcq, crdcq, stats, num_cards, buffer_list,
          should_mark, allocated, completed, pc, loc, last_store, heap, live,
          call, ret, task, prot, ilist>>

NoNode == [id |-> 0, buf |-> <<>>, index |-> 0]

IdleLoc ==
  [ctx |-> "none", fenced |-> FALSE, written |-> <<>>, i |-> 0, val |-> Clean,
   flushed |-> FALSE, dirtied |-> 0, filtered |-> 0, size |-> 0,
   node |-> NoNode, newid |-> 0]

NoCall == [fn |-> "none"]
NoRet == [done |-> FALSE]

\* Encoded void* values (IntrusiveListImpl::IOps): null, a pointer to a
\* list element, or the tagged pointer to the root entry of a list.
Null == 0
Elems == 1 .. NumElems
ListIds == 1 .. NumLists
\* IOps::make_encoded_value(const Entry*) of list l's root entry.
add_tag_to_root_entry(l) == 0 - l
is_tagged_root_entry(ptr) == ptr < 0
remove_tag_from_root_entry(ptr) == 0 - ptr
Roots == {add_tag_to_root_entry(l) : l \in ListIds}

\* IntrusiveListEntry(): an entry not attached to any list.
IntrusiveListEntry == [_prev |-> Null, _next |-> Null]

\* IntrusiveList(): an empty list; begin() and rbegin() are end().
IntrusiveListImpl(l) == [_prev |-> add_tag_to_root_entry(l), _next |-> add_tag_to_root_entry(l)]

\* The caller of the list operations holds no call's arguments and result.
NoListCall ==
  [op |-> "none", is_forward |-> TRUE, list |-> 0, from_list |-> 0, pos |-> Null,
   from |-> Null, to |-> Null, n |-> 0, value |-> Null, predicate |-> {}, result |-> Null]

\* The lists and the elements after construction.
ConstructedLists ==
  [entry |-> [x \in Elems \cup Roots |->
                IF x \in Roots THEN IntrusiveListImpl(remove_tag_from_root_entry(x))
                               ELSE IntrusiveListEntry],
   _size |-> [l \in ListIds |-> 0],
   last |-> NoListCall]

\* A thread that has made no protected call.
NoProt == [current_thread |-> TRUE, crash_protection |-> 0, frames |-> <<>>, returned |-> <<>>]

\* The workers of the pre-evacuation batch task.
Workers == {"w1", "w2"}

\* No batch task exists.  UseTLAB is the flag of that name; calls lists, for
\* each Java thread, the calls RetireTLABAndFlushLogsClosure::do_thread has
\* made for it, in the order made; ctor is the position of the task's
\* constructor and destructor, registered the sub-tasks added so far.  Of
\* the dirty card queue set the record holds the mutator refinement
\* threshold, the number of paused buffers and the detached threads'
\* stats; recorded is what record_concurrent_refinement_stats was given.
NoTask ==
  [active |-> FALSE, claimed |-> {}, non_java_done |-> FALSE, cr_done |-> FALSE,
   UseTLAB |-> FALSE, calls |-> [t \in Mutators |-> <<>>],
   ctor |-> "none", registered |-> <<>>,
   mutator_refinement_threshold |-> "SIZE_MAX", paused |-> 0,
   detached |-> ZeroStats, non_java_mutator_stats |-> ZeroStats,
   recorded |-> [done |-> FALSE, mutator_stats |-> ZeroStats,
                 flushlogs_stats |-> ZeroStats],
   worker |-> [w \in Workers |->
                 [pc |-> "none", dcq |-> NullDcq, node |-> NoNode, thread |-> "none",
                  written |-> <<>>, i |-> 0, dirtied |-> 0, filtered |-> 0,
                  flushlogs_stats |-> ZeroStats, mutator_stats |-> ZeroStats]]]

\* The dirty card queue a thread's operations enqueue into.
WorkDcq(t) == IF t \in Refiners THEN crdcq[t] ELSE dcq[t]

\* The state after construction, but for the card table, the addresses
\* written and the threads running.
Constructed ==
  /\ filter \in Filters
  /\ mode \in Modes
  /\ wcq = [t \in Threads |-> NewWrittenCardQueue(mode, filter)]
  /\ dcq = [t \in Threads |-> NullDcq]
  /\ crdcq = [t \in Refiners |-> NullDcq]
  /\ stats = [t \in Threads |-> ZeroStats]
  /\ num_cards = 0
  /\ buffer_list = <<>>
  /\ should_mark = FALSE
  /\ allocated = {}
  /\ completed = 0
  /\ pc = [t \in Threads |-> "idle"]
  /\ loc = [t \in Threads |-> IdleLoc]
  /\ last_store = [loaded |-> Clean, before |-> Clean]
  /\ call = NoCall
  /\ ret = NoRet
  /\ task = NoTask

\* Two addresses on different cards, or one address.
TwoAddrs == {0, NumAddrs - 2}
OneAddr == {0}

\* One mutator and the refinement worker, under every configuration.  Cards
\* start clean or young; a dirty card under empty queues is reached by a
\* store followed by a detach.
Init ==
  /\ Constructed
  /\ prot = NoProt
  /\ ilist = ConstructedLists
  /\ cards \in [Ptrs -> {Clean, Young}]
  /\ heap = IF mode = "deferred" /\ filter # FilterPrevious THEN OneAddr ELSE TwoAddrs
  /\ live = {"m1", "r1"}

\* Two mutators and the refinement worker with deferred dirtying, all
\* writing to the same clean cards.
InitConc ==
  /\ Constructed
  /\ prot = NoProt
  /\ ilist = ConstructedLists
  /\ mode = "deferred"
  /\ cards = [p \in Ptrs |-> Clean]
  /\ heap = IF filter # FilterPrevious THEN OneAddr ELSE TwoAddrs
  /\ live = Threads

\* The allocator's bound: MaxNodes buffers for each running mutator.
CanAllocate(alloc) == Cardinality(alloc) < MaxNodes * Cardinality(Mutators \cap live)

StatsRoom(t) ==
  /\ stats[t].written_cards < MaxStat
  /\ stats[t].written_cards_filtered < MaxStat

(***************************************************************************)
(* The write barrier's append (generated code): store below the index.     *)
(* With the Previous filter a card index equal to the entry at the index   *)
(* (the latest entry, or NoMatchingCard when the queue is empty) is        *)
(* dropped.  With the Young filter the caller has checked the card.        *)
(***************************************************************************)
LoggedValue(f, addr) ==
  CASE f = FilterNone -> addr
    [] f = FilterYoung -> CardPtr(CardIndex(addr))
    [] f = FilterPrevious -> CardIndex(addr)

\* Whether the barrier logs a write to addr at all.
BarrierLogs(f, q, c, addr) ==
  CASE f = FilterNone -> TRUE
    [] f = FilterYoung -> c[CardPtr(CardIndex(addr))] # Young
    [] f = FilterPrevious -> q.buf[q.index + 1] # CardIndex(addr)

WcqAppend(q, v) == [q EXCEPT !.buf[q.index] = v, !.index = q.index - 1]

BarrierAppend(t, addr) ==
  /\ pc[t] = "idle"
  /\ t \in Mutators \cap live
  /\ wcq[t].index > 0
  /\ BarrierLogs(filter, wcq[t], cards, addr)
  /\ wcq' = [wcq EXCEPT ![t] = WcqAppend(wcq[t], LoggedValue(filter, addr))]
  /\ UNCHANGED <<config_vars, cards, dcq, crdcq, stats, set_vars, completed, pc, loc,
                 last_store, fn_vars>>

(***************************************************************************)
(* Overflow handlers.  The barrier calls the configuration's handler when  *)
(* the index has reached 0.                                                *)
(***************************************************************************)
\* The handlers' common middle: stats.inc_written_cards(bufsize);
\* wcq.set_index(bufsize); next comes the fence.
HandlerBeginMarking(t, bufsize) ==
  /\ stats' = [stats EXCEPT ![t] = inc_written_cards(@, bufsize)]
  /\ wcq' = [wcq EXCEPT ![t] = set_index(@, bufsize)]
  /\ pc' = [pc EXCEPT ![t] = "fence"]
  /\ loc' = [loc EXCEPT ![t] = [IdleLoc EXCEPT !.ctx = "handler", !.size = bufsize]]

\* The initial buffer's slots copied to the end of the new buffer in the
\* opposite order.
PromotedBufferReversed(initial) ==
  LET index == BufferCapacity - InitialCapacity
  IN [k \in 1 .. BufferCapacity |->
        IF k > index THEN initial[InitialCapacity + 1 - (k - index)] ELSE Uninit]

\* The buffer handle_full_indirect_initial_buffer fills: the initial
\* buffer's slots copied to the end of the new buffer.
PromotedBuffer(initial) ==
  LET index == BufferCapacity - InitialCapacity
  IN [k \in 1 .. BufferCapacity |-> IF k > index THEN initial[k - index] ELSE Uninit]

\* The queue on its new buffer: wcq._indirect._buffer = new_buffer;
\* wcq.set_index(index).
PromotedQueue(q, id) ==
  [kind |-> "node", node |-> id, buf |-> PromotedBuffer(q.buf),
   index |-> BufferCapacity - InitialCapacity]

handle_full_indirect_initial_buffer(t) ==
  /\ wcq[t].kind = "initial"
  /\ CanAllocate(allocated)
  /\ wcq' = [wcq EXCEPT ![t] = PromotedQueue(wcq[t], AllocateId(allocated))]
  /\ allocated' = allocated \cup {AllocateId(allocated)}
  /\ UNCHANGED <<stats, pc, loc>>

handle_full_buffer_inline(t) ==
  /\ mode = "inline"
  /\ HandlerBeginMarking(t, InlineCapacity - size_adjust(filter))
  /\ UNCHANGED <<allocated, num_cards, buffer_list>>

\* handle_full_buffer_indirect, also run by the deferred handler when
\* mutators should mark cards dirty.
IndirectHandler(t) ==
  \/ handle_full_indirect_initial_buffer(t)
  \/ /\ wcq[t].kind # "initial"
     /\ HandlerBeginMarking(t, RawCapacity(wcq[t]) - size_adjust(filter))
     /\ UNCHANGED allocated

handle_full_buffer_indirect(t) ==
  /\ mode = "indirect"
  /\ IndirectHandler(t)
  /\ UNCHANGED <<num_cards, buffer_list>>

\* The deferred handler up to its call of enqueue_completed_buffer.
DeferredHandoffBegin(t) ==
  /\ wcq[t].kind # "initial"
  /\ CanAllocate(allocated)
  /\ allocated' = allocated \cup {AllocateId(allocated)}
  /\ LET old_node == make_node_from_buffer(wcq[t].node, wcq[t].buf, 0)
     IN /\ stats' = [stats EXCEPT ![t] = inc_written_cards(@, NodeSize(old_node))]
        /\ loc' = [loc EXCEPT ![t] =
                     [IdleLoc EXCEPT !.ctx = "handler", !.node = old_node,
                                     !.newid = AllocateId(allocated),
                                     !.size = BufferCapacity - size_adjust(filter)]]
  /\ pc' = [pc EXCEPT ![t] = "enq_add"]
  /\ UNCHANGED wcq

\* A deferred handler that hands its buffer over whatever
\* mutator_should_mark_cards_dirty says.
DeferredAlwaysHandsOver(t) ==
  /\ mode = "deferred"
  /\ handle_full_indirect_initial_buffer(t) \/ DeferredHandoffBegin(t)
  /\ UNCHANGED <<num_cards, buffer_list>>

handle_full_buffer_deferred(t) ==
  /\ mode = "deferred"
  /\ IF should_mark
       THEN IndirectHandler(t)
       ELSE handle_full_indirect_initial_buffer(t) \/ DeferredHandoffBegin(t)
  /\ UNCHANGED <<num_cards, buffer_list>>

HandlerEntry(t) ==
  /\ pc[t] = "idle"
  /\ t \in Mutators \cap live
  /\ wcq[t].index = 0
  /\ StatsRoom(t)
  /\ \/ handle_full_buffer_inline(t)
     \/ handle_full_buffer_indirect(t)
     \/ handle_full_buffer_deferred(t)
  /\ UNCHANGED <<config_vars, cards, dcq, crdcq, should_mark, completed, last_store, fn_vars>>

\* enqueue_completed_buffer: Atomic::add(&_num_cards, node->size()) ...
EnqueueAdd(t) ==
  /\ pc[t] = "enq_add"
  /\ num_cards' = num_cards + NodeSize(loc[t].node)
  /\ pc' = [pc EXCEPT ![t] = "enq_push"]
  /\ UNCHANGED <<buffer_list, loc>>

\* The second step without the push.
EnqueueWithoutPush(t) ==
  /\ pc[t] = "enq_push"
  /\ pc' = [pc EXCEPT ![t] = "retarget"]
  /\ loc' = [loc EXCEPT ![t].node = NoNode]
  /\ UNCHANGED <<num_cards, buffer_list>>

\* ... then _buffer_list.push(*node).
EnqueuePush(t) ==
  /\ pc[t] = "enq_push"
  /\ buffer_list' = Push(buffer_list, loc[t].node)
  /\ pc' = [pc EXCEPT ![t] = "retarget"]
  /\ loc' = [loc EXCEPT ![t].node = NoNode]
  /\ UNCHANGED num_cards

\* The same two steps in the other order.
EnqueuePushThenAdd(t) ==
  \/ /\ pc[t] = "enq_add"
     /\ buffer_list' = Push(buffer_list, loc[t].node)
     /\ pc' = [pc EXCEPT ![t] = "enq_push"]
     /\ UNCHANGED <<num_cards, loc>>
  \/ /\ pc[t] = "enq_push"
     /\ num_cards' = num_cards + NodeSize(loc[t].node)
     /\ pc' = [pc EXCEPT ![t] = "retarget"]
     /\ loc' = [loc EXCEPT ![t].node = NoNode]
     /\ UNCHANGED buffer_list

enqueue_completed_buffer(t) == EnqueueAdd(t) \/ EnqueuePush(t)

EnqueueCompletedBuffer(t) ==
  /\ enqueue_completed_buffer(t)
  /\ UNCHANGED <<config_vars, cards, queue_vars, should_mark, allocated, completed,
                 last_store, fn_vars>>

\* A new buffer installed without the store of NoMatchingCard.
DeferredNewQueueNoSentinel(newid, bufsize, f) ==
  [kind |-> "node", node |-> newid, buf |-> UninitBuffer(BufferCapacity),
   index |-> bufsize]

\* The deferred handler after enqueue_completed_buffer: the queue takes the
\* new buffer, empty, with the Previous filter's NoMatchingCard in place.
DeferredNewQueue(newid, bufsize, f) ==
  [kind |-> "node", node |-> newid,
   buf |-> IF size_adjust(f) # 0
             THEN StoreNoMatchingCard(UninitBuffer(BufferCapacity), bufsize)
             ELSE UninitBuffer(BufferCapacity),
   index |-> bufsize]

DeferredRetarget(t) ==
  /\ pc[t] = "retarget"
  /\ wcq' = [wcq EXCEPT ![t] = DeferredNewQueue(loc[t].newid, loc[t].size, filter)]
  /\ pc' = [pc EXCEPT ![t] = "idle"]
  /\ loc' = [loc EXCEPT ![t] = IdleLoc]
  /\ UNCHANGED <<config_vars, cards, dcq, crdcq, stats, set_vars, completed,
                 last_store, fn_vars>>

\* OrderAccess::fence(), then the marker's transform of the buffer.
FenceAndTransform(t, fenced) ==
  /\ pc[t] = "fence"
  /\ LET tr == FilterTransform(filter, Region(wcq[t].buf, 0, loc[t].size))
     IN /\ wcq' = [wcq EXCEPT ![t].buf = WriteRegion(@, 0, tr.region)]
        /\ stats' = [stats EXCEPT ![t] = inc_written_cards_filtered(@, tr.dropped)]
        /\ loc' = [loc EXCEPT ![t].fenced = fenced, ![t].written = tr.ptrs, ![t].i = 1]
  /\ pc' = [pc EXCEPT ![t] = "load"]
  /\ UNCHANGED <<config_vars, cards, dcq, crdcq, set_vars, completed, last_store, fn_vars>>

\* The handler without its fence.
HandlerNoFence(t) == FenceAndTransform(t, FALSE)

HandlerFence(t) == FenceAndTransform(t, TRUE)

(***************************************************************************)
(* enqueue_clean_cards run by a thread, one card at a time: the load of    *)
(* the card's value and, for a card found clean, the store of dirty with   *)
(* the enqueue are separate steps, and other threads run between them.     *)
(***************************************************************************)
SetWorkDcq(t, q) ==
  IF t \in Refiners
    THEN crdcq' = [crdcq EXCEPT ![t] = q] /\ UNCHANGED dcq
    ELSE dcq' = [dcq EXCEPT ![t] = q] /\ UNCHANGED crdcq

AfterEntry(t) == IF loc[t].i + 1 > Len(loc[t].written) THEN "finish" ELSE "load"

CardLoad(t) ==
  /\ pc[t] = "load"
  /\ LET v == EccLoad(cards, loc[t].written[loc[t].i])
     IN IF EccIsClean(v)
          THEN /\ loc' = [loc EXCEPT ![t].val = v]
               /\ pc' = [pc EXCEPT ![t] = "store"]
          ELSE /\ loc' = [loc EXCEPT ![t].filtered = @ + 1, ![t].i = @ + 1]
               /\ pc' = [pc EXCEPT ![t] = AfterEntry(t)]
  /\ UNCHANGED <<config_vars, cards, queue_vars, set_vars, completed, last_store, fn_vars>>

CardStore(t) ==
  /\ pc[t] = "store"
  /\ LET p == loc[t].written[loc[t].i]
         e == [cards |-> cards, dcq |-> WorkDcq(t), handed |-> <<>>,
               flushed |-> loc[t].flushed, dirtied |-> loc[t].dirtied,
               filtered |-> loc[t].filtered]
         r == EccDirtyAndEnqueue(e, p)
     IN /\ cards' = r.cards
        /\ SetWorkDcq(t, r.dcq)
        /\ completed' = completed + Len(r.handed)
        /\ loc' = [loc EXCEPT ![t].flushed = r.flushed, ![t].dirtied = r.dirtied,
                              ![t].i = @ + 1, ![t].val = Clean]
        /\ last_store' = [loaded |-> loc[t].val, before |-> cards[p]]
  /\ pc' = [pc EXCEPT ![t] = AfterEntry(t)]
  /\ UNCHANGED <<config_vars, wcq, stats, set_vars, fn_vars>>

\* The end of enqueue_clean_cards and of the handler that called it.  A
\* flushed dirty card queue makes the handler call
\* mutator_refine_completed_buffer, which acts on the dirty card queue set's
\* own state only.
HandlerFinish(t) ==
  /\ pc[t] = "finish"
  /\ loc[t].ctx = "handler"
  /\ stats' = [stats EXCEPT ![t] = EccFinish(loc[t], @)]
  /\ pc' = [pc EXCEPT ![t] = "idle"]
  /\ loc' = [loc EXCEPT ![t] = IdleLoc]
  /\ UNCHANGED <<config_vars, cards, wcq, dcq, crdcq, set_vars, completed, last_store, fn_vars>>

(***************************************************************************)
(* A refinement worker's G1WrittenCardQueueSet::mark_cards_dirty.          *)
(***************************************************************************)
\* A take that leaves the buffer linked on the list.
TakeKeepingLinked(t) ==
  /\ pc[t] = "idle"
  /\ t \in Refiners \cap live
  /\ mode = "deferred"
  /\ StatsRoom(t)
  /\ buffer_list # <<>>
  /\ loc' = [loc EXCEPT ![t] = [IdleLoc EXCEPT !.ctx = "refine", !.node = Head(buffer_list)]]
  /\ pc' = [pc EXCEPT ![t] = "take_sub"]
  /\ UNCHANGED <<num_cards, stats, buffer_list>>

\* take_completed_buffer: _buffer_list.pop() in the critical section ...
TakePop(t) ==
  /\ pc[t] = "idle"
  /\ t \in Refiners \cap live
  /\ mode = "deferred"
  /\ StatsRoom(t)
  /\ buffer_list # <<>>
  /\ buffer_list' = Tail(buffer_list)
  /\ loc' = [loc EXCEPT ![t] = [IdleLoc EXCEPT !.ctx = "refine", !.node = Head(buffer_list)]]
  /\ pc' = [pc EXCEPT ![t] = "take_sub"]
  /\ UNCHANGED <<num_cards, stats>>

\* ... then Atomic::sub(&_num_cards, node->size()); back in mark_cards_dirty
\* the filter's transform of the node's entries.
TakeSub(t) ==
  /\ pc[t] = "take_sub"
  /\ num_cards' = num_cards - NodeSize(loc[t].node)
  /\ LET node == loc[t].node
         tr == FilterTransform(filter, Region(node.buf, node.index, WcqsTransformSize(node, filter)))
     IN /\ loc' = [loc EXCEPT ![t].written = tr.ptrs, ![t].i = 1]
        /\ stats' = [stats EXCEPT ![t] = inc_written_cards_filtered(@, tr.dropped)]
  /\ pc' = [pc EXCEPT ![t] = "load"]
  /\ UNCHANGED buffer_list

take_completed_buffer(t) == TakePop(t) \/ TakeSub(t)

TakeCompletedBuffer(t) ==
  /\ take_completed_buffer(t)
  /\ UNCHANGED <<config_vars, cards, wcq, dcq, crdcq, should_mark, allocated, completed,
                 last_store, fn_vars>>

\* deallocate_buffer(node); return true
WcqsMarkFinish(t) ==
  /\ pc[t] = "finish"
  /\ loc[t].ctx = "refine"
  /\ stats' = [stats EXCEPT ![t] = EccFinish(loc[t], @)]
  /\ allocated' = deallocate_buffer(allocated, loc[t].node.id)
  /\ pc' = [pc EXCEPT ![t] = "idle"]
  /\ loc' = [loc EXCEPT ![t] = IdleLoc]
  /\ UNCHANGED <<config_vars, cards, wcq, dcq, crdcq, num_cards, buffer_list, should_mark,
                 completed, last_store, fn_vars>>

(***************************************************************************)
(* G1BarrierSet::on_thread_detach: the thread marks its written cards      *)
(* dirty, discards an indirect queue's buffer by destroying and            *)
(* constructing the queue again, and flushes its dirty card queue.         *)
(***************************************************************************)
\* A detach that goes on to discard the buffer without marking the written
\* cards of the queue.
OnThreadDetachWithoutMark(t) ==
  /\ pc[t] = "idle"
  /\ t \in Mutators \cap live
  /\ loc' = [loc EXCEPT ![t] = [IdleLoc EXCEPT !.ctx = "detach"]]
  /\ pc' = [pc EXCEPT ![t] = "finish"]
  /\ UNCHANGED <<config_vars, cards, wcq, stats, dcq, crdcq, set_vars, completed,
                 last_store, fn_vars>>

OnThreadDetachMark(t) ==
  /\ pc[t] = "idle"
  /\ t \in Mutators \cap live
  /\ LET p == WcqMarkPrepare(wcq[t], filter)
         tr == FilterTransform(filter, Region(wcq[t].buf, p.from, p.size))
     IN IF p.run
          THEN /\ wcq' = [wcq EXCEPT ![t] = [p.q EXCEPT !.buf = WriteRegion(@, p.from, tr.region)]]
               /\ stats' = [stats EXCEPT ![t] = inc_written_cards_filtered(@, tr.dropped)]
               /\ loc' = [loc EXCEPT ![t] = [IdleLoc EXCEPT !.ctx = "detach",
                                                            !.written = tr.ptrs, !.i = 1]]
               /\ pc' = [pc EXCEPT ![t] = "load"]
          ELSE /\ wcq' = [wcq EXCEPT ![t] = p.q]
               /\ loc' = [loc EXCEPT ![t] = [IdleLoc EXCEPT !.ctx = "detach"]]
               /\ pc' = [pc EXCEPT ![t] = "finish"]
               /\ UNCHANGED stats
  /\ UNCHANGED <<config_vars, cards, dcq, crdcq, set_vars, completed, last_store, fn_vars>>

\* G1DirtyCardQueueSet::flush_queue: a buffer with entries goes to the set,
\* and the queue is left without a buffer.
FlushedBuffers(q) == IF DcqIsEmpty(q) THEN 0 ELSE 1

\* A detach that leaves the written card queue as mark_cards_dirty left it,
\* without the destructor and the constructor.
OnThreadDetachKeepingBuffer(t) ==
  /\ pc[t] = "finish"
  /\ loc[t].ctx = "detach"
  /\ completed' = completed + FlushedBuffers(dcq[t])
  /\ dcq' = [dcq EXCEPT ![t] = NullDcq]
  /\ stats' = [stats EXCEPT ![t] = ZeroStats]
  /\ pc' = [pc EXCEPT ![t] = "idle"]
  /\ loc' = [loc EXCEPT ![t] = IdleLoc]
  /\ UNCHANGED <<config_vars, cards, wcq, allocated, crdcq, num_cards, buffer_list,
                 should_mark, last_store, fn_vars>>

OnThreadDetachFinish(t) ==
  /\ pc[t] = "finish"
  /\ loc[t].ctx = "detach"
  /\ IF mode # "inline"
       THEN /\ wcq' = [wcq EXCEPT ![t] = NewWrittenCardQueue(mode, filter)]
            /\ allocated' = IF wcq[t].kind = "node"
                               THEN deallocate_buffer(allocated, wcq[t].node)
                               ELSE allocated
       ELSE UNCHANGED <<wcq, allocated>>
  /\ completed' = completed + FlushedBuffers(dcq[t])
  /\ dcq' = [dcq EXCEPT ![t] = NullDcq]
  \* record_detached_refinement_stats(stats) takes the thread's counters.
  /\ stats' = [stats EXCEPT ![t] = ZeroStats]
  /\ pc' = [pc EXCEPT ![t] = "idle"]
  /\ loc' = [loc EXCEPT ![t] = IdleLoc]
  /\ UNCHANGED <<config_vars, cards, crdcq, num_cards, buffer_list, should_mark,
                 last_store, fn_vars>>

(***************************************************************************)
(* Safepoint operations: no thread is inside a handler or a refinement     *)
(* step, which hold no safepoint poll.                                     *)
(***************************************************************************)
AtSafepoint == \A t \in Threads : pc[t] = "idle"

\* G1DirtyCardQueueSet::reset_queue: an existing buffer becomes empty.
DcqResetQueue(q) == [q EXCEPT !.index = Len(q.buffer)]

\* deallocate_buffer for every node of a list.
RECURSIVE DeallocateAll(_, _)
DeallocateAll(alloc, list) ==
  IF list = <<>> THEN alloc
  ELSE DeallocateAll(deallocate_buffer(alloc, Head(list).id), Tail(list))

\* The buffers dropped, the count left as it was.
AbandonKeepingCount(list, num, alloc) ==
  [list |-> <<>>, allocated |-> DeallocateAll(alloc, list), num_cards |-> num]

\* G1WrittenCardQueueSet::abandon_completed_buffers
abandon_completed_buffers(list, num, alloc) ==
  [list |-> <<>>, allocated |-> DeallocateAll(alloc, list), num_cards |-> 0]

abandon_post_barrier_logs_and_stats ==
  /\ AtSafepoint
  /\ wcq' = [t \in Threads |-> reset(wcq[t], filter)]
  /\ dcq' = [t \in Threads |-> DcqResetQueue(dcq[t])]
  /\ stats' = [t \in Threads |-> ZeroStats]
  /\ LET a == abandon_completed_buffers(buffer_list, num_cards, allocated)
     IN /\ buffer_list' = a.list
        /\ allocated' = a.allocated
        /\ num_cards' = a.num_cards
  /\ completed' = 0
  /\ UNCHANGED <<config_vars, cards, crdcq, should_mark, pc, loc, last_store, fn_vars>>

\* Flipped at safepoint boundaries only; the pre-evacuation task passes false.
set_mutator_should_mark_cards_dirty(value) ==
  /\ AtSafepoint
  /\ mode = "deferred"
  /\ should_mark # value
  /\ should_mark' = value
  /\ UNCHANGED <<config_vars, cards, queue_vars, num_cards, buffer_list, allocated,
                 completed, pc, loc, last_store, fn_vars>>

Next ==
  \/ \E t \in Threads : \E addr \in heap : BarrierAppend(t, addr)
  \/ \E t \in Threads : HandlerEntry(t)
  \/ \E t \in Threads : EnqueueCompletedBuffer(t)
  \/ \E t \in Threads : DeferredRetarget(t)
  \/ \E t \in Threads : HandlerFence(t)
  \/ \E t \in Threads : CardLoad(t)
  \/ \E t \in Threads : CardStore(t)
  \/ \E t \in Threads : HandlerFinish(t)
  \/ \E t \in Threads : TakeCompletedBuffer(t)
  \/ \E t \in Threads : WcqsMarkFinish(t)
  \/ \E t \in Threads : OnThreadDetachMark(t)
  \/ \E t \in Threads : OnThreadDetachFinish(t)
  \/ abandon_post_barrier_logs_and_stats
  \/ \E value \in BOOLEAN : set_mutator_should_mark_cards_dirty(value)

Spec == Init /\ [][Next]_vars

\* Between two safepoints that leave mutator_should_mark_cards_dirty false,
\* with no thread detaching: the mutators hand their buffers to the set and
\* the refinement worker marks their cards.
NextConc ==
  \/ \E t \in Threads : \E addr \in heap : BarrierAppend(t, addr)
  \/ \E t \in Threads : HandlerEntry(t)
  \/ \E t \in Threads : EnqueueCompletedBuffer(t)
  \/ \E t \in Threads : DeferredRetarget(t)
  \/ \E t \in Threads : TakeCompletedBuffer(t)
  \/ \E t \in Threads : CardLoad(t)
  \/ \E t \in Threads : CardStore(t)
  \/ \E t \in Threads : WcqsMarkFinish(t)
  \/ abandon_post_barrier_logs_and_stats

SpecConc == InitConc /\ [][NextConc]_vars

(***************************************************************************)
(* The marking functions applied on their own.  A written card queue or a  *)
(* completed buffer they are applied to is one the barrier has filled      *)
(* under the configuration; the machine itself stays as constructed.       *)
(***************************************************************************)
machine_vars == <<filter, mode, cards, wcq, dcq, crdcq, stats, num_cards, buffer_list,
                  should_mark, allocated, completed, pc, loc, last_store, heap, live,
                  task, prot, ilist>>

SeqsUpTo(S, n) == UNION {[1 .. k -> S] : k \in 0 .. n}

\* A dirty card queue holding k cards.
DcqWith(k) ==
  [buffer |-> [i \in 1 .. DcqCapacity |-> IF i > DcqCapacity - k THEN CardPtr(0) ELSE Uninit],
   index |-> DcqCapacity - k]

\* No buffer yet (the state on_thread_attach asserts), or a buffer that is
\* empty, part full or full.
DcqInputs == {NullDcq} \cup {DcqWith(k) : k \in 0 .. DcqCapacity}

StatsInputs ==
  {ZeroStats,
   [written_cards |-> 1, written_cards_dirtied |-> 1, written_cards_filtered |-> 1]}

\* The queue after the barrier has logged the writes to addrs in turn.  A
\* full initial buffer is first replaced by a buffer of the allocator, as
\* the indirect handlers do; a write the barrier filters, or one to a queue
\* that is full otherwise, logs nothing.
RECURSIVE AppendAll(_, _, _, _, _)
AppendAll(q, f, c, addrs, i) ==
  IF i > Len(addrs) THEN q
  ELSE LET q1 == IF q.index = 0 /\ q.kind = "initial" THEN PromotedQueue(q, 1) ELSE q
           q2 == IF q1.index > 0 /\ BarrierLogs(f, q1, c, addrs[i])
                   THEN WcqAppend(q1, LoggedValue(f, addrs[i]))
                   ELSE q1
       IN AppendAll(q2, f, c, addrs, i + 1)

\* A completed buffer: the deferred handler's new buffer, filled.
CompletedQueue(id, f, c, addrs) ==
  AppendAll(DeferredNewQueue(id, BufferCapacity - size_adjust(f), f), f, c, addrs, 1)

CompletedNodes(id, f, c) ==
  {make_node_from_buffer(id, CompletedQueue(id, f, c, addrs).buf, 0) :
     addrs \in {a \in [1 .. BufferCapacity -> TwoAddrs] :
                  CompletedQueue(id, f, c, a).index = 0}}

\* buffer_list with up to two completed buffers.
ListInputs(f, c) ==
  {<<>>} \cup {<<n>> : n \in CompletedNodes(1, f, c)}
         \cup {<<n, m>> : n \in CompletedNodes(2, f, c), m \in CompletedNodes(1, f, c)}

NodesOf(list) == {list[i].id : i \in 1 .. Len(list)}

InitFn ==
  /\ Constructed
  /\ prot = NoProt
  /\ ilist = ConstructedLists
  /\ cards \in [Ptrs -> CardValues]
  /\ heap = Addrs
  /\ live = {}

ApplyEnqueueCleanCards ==
  /\ call = NoCall
  /\ \E written \in SeqsUpTo(Ptrs, MaxLen) \ {<<>>}, q \in DcqInputs, st \in StatsInputs :
       /\ call' = [fn |-> "enqueue_clean_cards", written |-> written, dcq |-> q, stats |-> st]
       /\ ret' = enqueue_clean_cards(written, cards, q, st)
  /\ UNCHANGED machine_vars

ApplyMarkCardsDirtyNoneFiltered ==
  /\ call = NoCall
  /\ filter = FilterNone
  /\ \E written \in SeqsUpTo(heap, MaxLen) \ {<<>>}, q \in DcqInputs, st \in StatsInputs :
       /\ call' = [fn |-> "mark_cards_dirty_none_filtered", written |-> written,
                   dcq |-> q, stats |-> st]
       /\ ret' = mark_cards_dirty_filtered(FilterNone, written, cards, q, st)
  /\ UNCHANGED machine_vars

ApplyWcqMarkCardsDirty ==
  /\ call = NoCall
  /\ \E addrs \in SeqsUpTo(heap, MaxLen), q \in DcqInputs, st \in StatsInputs :
       LET w == AppendAll(NewWrittenCardQueue(mode, filter), filter, cards, addrs, 1)
       IN /\ call' = [fn |-> "wcq_mark_cards_dirty", wcq |-> w, dcq |-> q, stats |-> st]
          /\ ret' = wcq_mark_cards_dirty(w, filter, cards, q, st)
  /\ UNCHANGED machine_vars

ApplyWcqsMarkCardsDirty ==
  /\ call = NoCall
  /\ mode = "deferred"
  /\ \E list \in ListInputs(filter, cards), q \in DcqInputs, st \in StatsInputs :
       /\ call' = [fn |-> "wcqs_mark_cards_dirty", list |-> list,
                   num_cards |-> SumSizes(list), allocated |-> NodesOf(list),
                   dcq |-> q, stats |-> st]
       /\ ret' = wcqs_mark_cards_dirty(list, SumSizes(list), NodesOf(list), filter,
                                       cards, q, st)
  /\ UNCHANGED machine_vars

\* reset(), then the barrier's appends for the writes to addrs (no more of
\* them than the queue's capacity, so that no handler runs), then reset().
\* The queue before the first reset holds whatever earlier writes left.
ApplyResetAppendsReset ==
  /\ call = NoCall
  /\ \E earlier \in SeqsUpTo(heap, InitialCapacity), addrs \in SeqsUpTo(heap, MaxLen) :
       LET w == AppendAll(NewWrittenCardQueue(mode, filter), filter, cards, earlier, 1)
           first == reset(w, filter)
           appended == AppendAll(first, filter, cards, addrs, 1)
       IN /\ Len(addrs) <= current_capacity(first, filter)
          /\ call' = [fn |-> "reset_appends_reset", first |-> first,
                      appended |-> appended]
          /\ ret' = [done |-> TRUE, wcq |-> reset(appended, filter)]
  /\ UNCHANGED machine_vars

Return ==
  /\ call # NoCall
  /\ call' = NoCall
  /\ ret' = NoRet
  /\ UNCHANGED machine_vars

NextFn ==
  \/ ApplyEnqueueCleanCards
  \/ ApplyMarkCardsDirtyNoneFiltered
  \/ ApplyWcqMarkCardsDirty
  \/ ApplyWcqsMarkCardsDirty
  \/ Return

SpecFn == InitFn /\ [][NextFn]_vars

\* reset() around appends, applied to the queues of every configuration.
NextReset ==
  \/ ApplyResetAppendsReset
  \/ Return

SpecReset == InitFn /\ [][NextReset]_vars

(***************************************************************************)
(* Properties of the set's count of cards and of the card marking.         *)
(***************************************************************************)
\* C1: under every interleaving of the mutators' enqueue_completed_buffer
\* and the refinement worker's take_completed_buffer, num_cards is at least
\* the sum of size() over the nodes linked on buffer_list.
NumCardsCoversList == num_cards >= SumSizes(buffer_list)

\* A mutator between its add and its push while the worker is between its
\* pop and its sub, the count above the list's sum.
NumCardsCoversListWitness ==
  /\ \E t \in Mutators : pc[t] = "enq_push"
  /\ \E t \in Refiners : pc[t] = "take_sub"
  /\ num_cards > SumSizes(buffer_list)

FenceBeforeCardAccess ==
  \A t \in Threads :
    (loc[t].ctx = "handler" /\ pc[t] \in {"load", "store", "finish"}) => loc[t].fenced

\* A deferred handler that delegated to the indirect one, about to store
\* dirty into a card.
FenceBeforeCardAccessWitness ==
  \E t \in Mutators :
    /\ mode = "deferred"
    /\ loc[t].ctx = "handler"
    /\ pc[t] = "store"
    /\ loc[t].fenced

\* C4: between calls on a written card queue, index <= current_capacity(),
\* and is_empty() exactly when index equals current_capacity().
IndexWithinCapacity ==
  \A t \in Threads :
    pc[t] = "idle" =>
      /\ wcq[t].index >= 0
      /\ wcq[t].index <= current_capacity(wcq[t], filter)
      /\ is_empty(wcq[t], filter) <=> (wcq[t].index = current_capacity(wcq[t], filter))

\* A queue on an allocator's buffer that has overflowed, been processed or
\* handed over, and been appended to again.
IndexWithinCapacityWitness ==
  \E t \in Mutators :
    /\ pc[t] = "idle"
    /\ wcq[t].kind = "node"
    /\ stats[t].written_cards > 0
    /\ wcq[t].index < current_capacity(wcq[t], filter)

\* C5: with the Previous filter, between operations the slot at raw
\* capacity - 1 of the queue's current buffer holds NoMatchingCard.
SentinelInPlace ==
  \A t \in Threads :
    (filter = FilterPrevious /\ pc[t] = "idle") =>
      wcq[t].buf[RawCapacity(wcq[t])] = NoMatchingCard

\* The buffer the deferred handler has just installed, with the Previous
\* filter.
SentinelInPlaceWitness ==
  \E t \in Mutators :
    /\ filter = FilterPrevious
    /\ mode = "deferred"
    /\ pc[t] = "idle"
    /\ wcq[t].kind = "node"
    /\ buffer_list # <<>>
    /\ is_empty(wcq[t], filter)

\* Every thread's logs empty, the set's list empty with a count of zero,
\* every thread's statistics zero.
AllLogsEmpty ==
  /\ \A t \in Threads : is_empty(wcq[t], filter)
  /\ \A t \in Threads : DcqIsEmpty(dcq[t])
  /\ buffer_list = <<>>
  /\ num_cards = 0
  /\ \A t \in Threads : stats[t] = ZeroStats

Range(w) == {w[i] : i \in 1 .. Len(w)}

\* The k-th smallest member of a set of numbers.
Nth(S, k) == CHOOSE x \in S : Cardinality({y \in S : y < x}) = k - 1

\* The members of w at the positions in S, in order.
SubSeqAt(w, S) == [k \in 1 .. Cardinality(S) |-> w[Nth(S, k)]]

RECURSIVE Flatten(_)
Flatten(ss) == IF ss = <<>> THEN <<>> ELSE Head(ss) \o Flatten(Tail(ss))

\* Every card appended through a dirty card queue, oldest first: those in
\* the buffers handed to the set, then those in the queue.
AllEntries(handed, q) ==
  Flatten([i \in 1 .. Len(handed) |-> BufferEntries(handed[i])]) \o DcqEntries(q)

\* The first occurrences in w of the cards that are clean in c.
FirstClean(w, c) ==
  SubSeqAt(w, {i \in 1 .. Len(w) : c[w[i]] = Clean /\ \A j \in 1 .. (i - 1) : w[j] # w[i]})

\* The card table after the cards in S that were clean have been dirtied.
Dirtied(c, S) == [p \in DOMAIN c |-> IF c[p] = Clean /\ p \in S THEN Dirty ELSE c[p]]

\* C7: a call of enqueue_clean_cards on its own leaves every card that was
\* not clean unchanged and counts it as filtered, sets every clean card to
\* dirty, counts it as dirtied and appends its pointer once, in input order;
\* dirtied + filtered = n and the queue grows by dirtied entries.
EnqueueCleanCardsContract ==
  call.fn = "enqueue_clean_cards" =>
    LET w == call.written
        appended == FirstClean(w, cards)
    IN /\ ret.cards = Dirtied(cards, Range(w))
       /\ ret.dirtied = Len(appended)
       /\ ret.filtered >= Cardinality({i \in 1 .. Len(w) : cards[w[i]] # Clean})
       /\ ret.dirtied + ret.filtered = Len(w)
       /\ AllEntries(ret.handed, ret.dcq) = DcqEntries(call.dcq) \o appended
       /\ ret.stats.written_cards_dirtied = call.stats.written_cards_dirtied + ret.dirtied
       /\ ret.stats.written_cards_filtered = call.stats.written_cards_filtered + ret.filtered
       /\ ret.stats.written_cards = call.stats.written_cards

\* A call on a clean card written twice and a card that is not clean, with
\* the dirty card queue filling up on the way.
EnqueueCleanCardsContractWitness ==
  /\ call.fn = "enqueue_clean_cards"
  /\ \E i, j \in 1 .. Len(call.written) :
       i < j /\ call.written[i] = call.written[j] /\ cards[call.written[i]] = Clean
  /\ \E i \in 1 .. Len(call.written) : cards[call.written[i]] # Clean
  /\ ret.handed # <<>>

\* The positions that start a maximal run of entries on one card.
RunHeads(w) ==
  {i \in 1 .. Len(w) : i = 1 \/ CardIndex(w[i]) # CardIndex(w[i - 1])}

\* C8: mark_cards_dirty_none_filtered forwards one card pointer for each
\* maximal run of consecutive entries with the same card index, in buffer
\* order, and adds the number of entries dropped to written_cards_filtered.
NoneFilteredForwardsRunHeads ==
  call.fn = "mark_cards_dirty_none_filtered" =>
    LET w == call.written
        heads == SubSeqAt(w, RunHeads(w))
        forwarded == [k \in 1 .. Len(heads) |-> CardPtr(CardIndex(heads[k]))]
        dirtied == ret.stats.written_cards_dirtied - call.stats.written_cards_dirtied
    IN /\ ret.ptrs = forwarded
       /\ SubSeq(ret.region, 1, Len(forwarded)) = forwarded
       /\ ret.dropped = Len(w) - Len(forwarded)
       /\ ret.cards = Dirtied(cards, Range(forwarded))
       /\ ret.stats.written_cards_filtered =
            call.stats.written_cards_filtered + ret.dropped + (Len(forwarded) - dirtied)

\* A buffer with a run of two entries at different addresses of one card
\* and an entry on another card.
NoneFilteredForwardsRunHeadsWitness ==
  /\ call.fn = "mark_cards_dirty_none_filtered"
  /\ \E i \in 1 .. (Len(call.written) - 1) :
       /\ call.written[i] # call.written[i + 1]
       /\ CardIndex(call.written[i]) = CardIndex(call.written[i + 1])
  /\ ret.dropped > 0
  /\ Len(ret.ptrs) > 1

\* C9 as stated: G1WrittenCardQueue::mark_cards_dirty returns true exactly
\* when a full dirty card buffer was handed to the dirty card queue set
\* during the call.
WcqMarkReturnsHandoff ==
  call.fn = "wcq_mark_cards_dirty" => (ret.ret <=> ret.handed # <<>>)

\* The card pointer an entry of a written buffer stands for.
EntryCard(f, v) ==
  CASE f = FilterNone -> CardPtr(CardIndex(v))
    [] f = FilterYoung -> v
    [] f = FilterPrevious -> CardPtr(v)

\* The cards of a completed buffer's entries, NoMatchingCard left out.
NodeCards(n, f) ==
  {EntryCard(f, n.buf[k]) : k \in {j \in (n.index + 1) .. Len(n.buf) : n.buf[j] # NoMatchingCard}}

\* C10: G1WrittenCardQueueSet::mark_cards_dirty returns false and changes
\* nothing when buffer_list is empty; otherwise it removes one buffer from
\* the list, takes its size off num_cards, marks its entries' cards,
\* gives the buffer back to the allocator and returns true.
WcqsMarkTakesOneBuffer ==
  call.fn = "wcqs_mark_cards_dirty" =>
    IF call.list = <<>>
      THEN /\ ret.ret = FALSE
           /\ ret.list = <<>>
           /\ ret.num_cards = call.num_cards
           /\ ret.allocated = call.allocated
           /\ ret.cards = cards
           /\ ret.dcq = call.dcq
           /\ ret.handed = <<>>
           /\ ret.stats = call.stats
      ELSE LET node == Head(call.list)
               entries == Len(node.buf) - node.index - size_adjust(filter)
           IN /\ ret.ret = TRUE
              /\ ret.list = Tail(call.list)
              /\ ret.num_cards = call.num_cards - (Len(node.buf) - node.index)
              /\ ret.num_cards = SumSizes(ret.list)
              /\ ret.allocated = NodesOf(ret.list)
              /\ ret.cards = Dirtied(cards, NodeCards(node, filter))
              /\ (ret.stats.written_cards_dirtied - call.stats.written_cards_dirtied)
                   + (ret.stats.written_cards_filtered - call.stats.written_cards_filtered)
                 = entries

\* A call with two buffers on the list whose first buffer has an entry on
\* a clean card.
WcqsMarkTakesOneBufferWitness ==
  /\ call.fn = "wcqs_mark_cards_dirty"
  /\ Len(call.list) = 2
  /\ ret.ret
  /\ ret.cards # cards

(***************************************************************************)
(* The set's count against the entries of the completed buffers.           *)
(***************************************************************************)
\* The written-card entries of the buffers on a list: for each node the
\* slots from its index up to the slot holding NoMatchingCard, if any.
RECURSIVE SumEntries(_, _)
SumEntries(list, f) ==
  IF list = <<>> THEN 0
  ELSE WcqsTransformSize(Head(list), f) + SumEntries(Tail(list), f)

NoEnqueueOrTakeInProgress ==
  \A t \in Threads : pc[t] \notin {"enq_add", "enq_push", "take_sub"}

\* C11 as stated: whenever no enqueue_completed_buffer or
\* take_completed_buffer is in progress, num_cards equals the number of
\* written-card entries held in the buffers on buffer_list, for each of the
\* three filters.
NumCardsEqualsEntries ==
  NoEnqueueOrTakeInProgress => num_cards = SumEntries(buffer_list, filter)

(***************************************************************************)
(* The written card queue at construction and at thread detach.            *)
(***************************************************************************)
\* C13: a written card queue is empty immediately after construction, and
\* when on_thread_detach completes the thread's written card queue is
\* empty; with indirect storage it uses the initial buffer again and the
\* buffer it had from the allocator has been given back.
DetachLeavesQueueEmpty ==
  /\ \A t \in Threads : is_empty(wcq[t], filter)
  /\ [][\A t \in Mutators :
          OnThreadDetachFinish(t) =>
            /\ is_empty(wcq'[t], filter)
            /\ mode # "inline" =>
                 /\ wcq'[t].kind = "initial"
                 /\ wcq[t].kind = "node" => wcq[t].node \notin allocated']_vars

\* A thread about to complete its detach while its queue uses a buffer of
\* the allocator, having marked entries of it.
DetachLeavesQueueEmptyWitness ==
  \E t \in Mutators :
    /\ pc[t] = "finish"
    /\ loc[t].ctx = "detach"
    /\ wcq[t].kind = "node"
    /\ wcq[t].node \in allocated
    /\ loc[t].written # <<>>

(***************************************************************************)
(* G1PreEvacuateCollectionSetBatchTask with deferred dirtying: at a        *)
(* safepoint the workers claim the Java threads and flush their logs, then *)
(* each drains the written card queue set into a dirty card queue of its   *)
(* own; the two serial sub-tasks flush the non-Java threads' and the       *)
(* refinement threads' dirty card queues.  Every access to shared state is *)
(* a step of its own: the claim of a thread, the pop of a completed       *)
(* buffer, the subtraction from num_cards, the marking of a buffer.        *)
(***************************************************************************)
JavaThreads == Mutators
NonJavaThreads == Refiners

task_vars == <<filter, mode, heap, live, pc, loc, last_store, should_mark, call, ret, prot,
               ilist>>

\* A written card queue on its initial buffer after the writes to addrs.
RetireQueue(f, c, addrs) == AppendAll(NewWrittenCardQueue("deferred", f), f, c, addrs, 1)

\* A completed buffer filled by writes that alternate between the two
\* cards, the first of them to address 0.
RetireNodes(id, f, c) ==
  {n \in CompletedNodes(id, f, c) :
     /\ n.buf[Len(n.buf) - size_adjust(f)] = LoggedValue(f, 0)
     /\ \A k \in 1 .. (Len(n.buf) - 1) : n.buf[k] # n.buf[k + 1]}

RetireLists(f, c) ==
  {<<>>} \cup {<<n>> : n \in RetireNodes(1, f, c)}
         \cup {<<n, m>> : n \in RetireNodes(2, f, c), m \in RetireNodes(1, f, c)}

\* The batch task constructed at a safepoint: no thread is inside a
\* handler, mutator_should_mark_cards_dirty has been set to false, the
\* threads' queues and the set's list hold what the mutators and the
\* refinement thread left there.
InitRetire ==
  /\ filter \in Filters
  /\ mode = "deferred"
  /\ cards = [p \in Ptrs |-> Clean]
  /\ heap = TwoAddrs
  /\ live = Threads
  /\ buffer_list \in RetireLists(filter, cards)
  /\ num_cards = SumSizes(buffer_list)
  /\ allocated = NodesOf(buffer_list)
  /\ \E a \in SeqsUpTo(OneAddr, 1) :
       wcq = [t \in Threads |-> IF t \in JavaThreads
                                  THEN RetireQueue(filter, cards, a)
                                  ELSE NewWrittenCardQueue(mode, filter)]
  /\ \E q \in {NullDcq, DcqWith(1)}, n \in {NullDcq, DcqWith(1)} :
       dcq = [t \in Threads |-> IF t = "m1" THEN q ELSE IF t \in NonJavaThreads THEN n ELSE NullDcq]
  /\ crdcq = [t \in Refiners |-> dcq[t]]
  /\ stats = [t \in Threads |-> ZeroStats]
  /\ should_mark = FALSE
  /\ completed = 0
  /\ pc = [t \in Threads |-> "idle"]
  /\ loc = [t \in Threads |-> IdleLoc]
  /\ last_store = [loaded |-> Clean, before |-> Clean]
  /\ call = NoCall
  /\ ret = NoRet
  /\ prot = NoProt
  /\ ilist = ConstructedLists
  /\ \E use_tlab \in BOOLEAN :
       task = [NoTask EXCEPT !.active = TRUE, !.UseTLAB = use_tlab,
                             !.ctor = "running",
                             !.registered = <<"non_java", "concurrent_refine", "java">>,
                             !.worker = [w \in Workers |-> [NoTask.worker[w] EXCEPT !.pc = "claim"]]]

\* G1ConcurrentRefineStats::operator+=
AddStats(a, b) ==
  [written_cards |-> a.written_cards + b.written_cards,
   written_cards_dirtied |-> a.written_cards_dirtied + b.written_cards_dirtied,
   written_cards_filtered |-> a.written_cards_filtered + b.written_cards_filtered]

\* The sum of the stats f[x] for the x in S.
RECURSIVE SumStats(_, _)
SumStats(f, S) ==
  IF S = {} THEN ZeroStats
  ELSE LET x == CHOOSE y \in S : TRUE
       IN AddStats(f[x], SumStats(f, S \ {x}))

\* G1DirtyCardQueueSet::flush_queue as flush_dirty_card_queue calls it: only
\* for a queue that is not empty.
FlushDirtyCardQueue(q) == IF DcqIsEmpty(q) THEN q ELSE NullDcq

\* do_thread with the TLAB retired before the thread is made parsable.
RetireBeforeParsable(use_tlab) ==
  (IF use_tlab THEN <<"retire">> ELSE <<>>)
    \o <<"make_parsable", "inc_written_cards", "mark_cards_dirty">>

\* The calls of do_thread up to the marking of the thread's written cards:
\* make_parsable, tlab().retire if (UseTLAB), inc_written_cards(wcq.size()),
\* wcq.mark_cards_dirty.
do_thread_begin(use_tlab) ==
  <<"make_parsable">> \o (IF use_tlab THEN <<"retire">> ELSE <<>>)
    \o <<"inc_written_cards", "mark_cards_dirty">>

\* The calls of do_thread after the marking.
do_thread_end == <<"flush_dirty_card_queue", "collect_refinement_stats">>

\* _claimer.apply(&tc): the worker claims a Java thread no worker has
\* claimed and starts RetireTLABAndFlushLogsClosure::do_thread on it:
\* inc_written_cards(wcq.size()), then wcq.mark_cards_dirty up to the
\* filter's transform.
WorkerDoThread(w, t) ==
  /\ task.worker[w].pc = "claim"
  /\ t \in JavaThreads \ task.claimed
  /\ LET me == task.worker[w]
         counted == inc_written_cards(me.flushlogs_stats, WcqSize(wcq[t], filter))
         p == WcqMarkPrepare(wcq[t], filter)
         tr == FilterTransform(filter, Region(wcq[t].buf, p.from, p.size))
     IN IF p.run
          THEN /\ wcq' = [wcq EXCEPT ![t] = [p.q EXCEPT !.buf = WriteRegion(@, p.from, tr.region)]]
               /\ task' = [task EXCEPT
                             !.claimed = @ \cup {t},
                             !.calls[t] = @ \o do_thread_begin(task.UseTLAB),
                             !.worker[w] = [me EXCEPT
                                !.pc = "thread_cards", !.thread = t,
                                !.written = tr.ptrs, !.i = 1,
                                !.flushlogs_stats = inc_written_cards_filtered(counted, tr.dropped)]]
          ELSE /\ wcq' = [wcq EXCEPT ![t] = p.q]
               /\ task' = [task EXCEPT
                             !.claimed = @ \cup {t},
                             !.calls[t] = @ \o do_thread_begin(task.UseTLAB),
                             !.worker[w] = [me EXCEPT
                                !.pc = "thread_cards", !.thread = t,
                                !.written = <<>>, !.i = 1,
                                !.flushlogs_stats = counted]]
  /\ UNCHANGED <<task_vars, cards, dcq, crdcq, stats, num_cards, buffer_list, allocated,
                 completed>>

\* One iteration of enqueue_clean_cards' loop, into the claimed thread's
\* dirty card queue or the worker's own.
WorkerCard(w) ==
  /\ task.worker[w].pc \in {"thread_cards", "node_cards"}
  /\ task.worker[w].i <= Len(task.worker[w].written)
  /\ LET me == task.worker[w]
         own == me.pc = "node_cards"
         e == [cards |-> cards, dcq |-> IF own THEN me.dcq ELSE dcq[me.thread],
               handed |-> <<>>, flushed |-> FALSE,
               dirtied |-> me.dirtied, filtered |-> me.filtered]
         r == EccEntry(e, me.written[me.i])
     IN /\ cards' = r.cards
        /\ completed' = completed + Len(r.handed)
        /\ dcq' = IF own THEN dcq ELSE [dcq EXCEPT ![me.thread] = r.dcq]
        /\ task' = [task EXCEPT
                      !.worker[w] = [me EXCEPT
                         !.i = @ + 1, !.dirtied = r.dirtied, !.filtered = r.filtered,
                         !.dcq = IF own THEN r.dcq ELSE @]]
  /\ UNCHANGED <<task_vars, wcq, crdcq, stats, num_cards, buffer_list, allocated>>

\* The end of the thread's enqueue_clean_cards, then
\* flush_dirty_card_queue(thread) and collect_refinement_stats(thread).
WorkerThreadFlush(w) ==
  /\ task.worker[w].pc = "thread_cards"
  /\ task.worker[w].i > Len(task.worker[w].written)
  /\ LET me == task.worker[w]
         t == me.thread
     IN /\ dcq' = [dcq EXCEPT ![t] = FlushDirtyCardQueue(@)]
        /\ completed' = completed + FlushedBuffers(dcq[t])
        /\ stats' = [stats EXCEPT ![t] = ZeroStats]
        /\ task' = [task EXCEPT
                      !.calls[t] = @ \o do_thread_end,
                      !.worker[w] = [me EXCEPT
                         !.pc = "claim", !.thread = "none", !.written = <<>>, !.i = 0,
                         !.dirtied = 0, !.filtered = 0,
                         !.flushlogs_stats = EccFinish(me, @),
                         !.mutator_stats = AddStats(@, stats[t])]]
  /\ UNCHANGED <<task_vars, cards, wcq, crdcq, num_cards, buffer_list, allocated>>

\* The claimer has no thread left: the worker goes on to the drain loop,
\* which do_work has under if (G1DeferDirtyingWrittenCards).
WorkerClaimDone(w) ==
  /\ task.worker[w].pc = "claim"
  /\ JavaThreads \subseteq task.claimed
  /\ task' = [task EXCEPT !.worker[w].pc = IF mode = "deferred" THEN "drain" ELSE "done"]
  /\ UNCHANGED <<task_vars, cards, queue_vars, num_cards, buffer_list, allocated, completed>>

\* A worker that goes on to flush its dirty card queue without draining.
WorkerSkipDrain(w) ==
  /\ task.worker[w].pc = "drain"
  /\ task' = [task EXCEPT !.worker[w].pc = "flush"]
  /\ UNCHANGED <<task_vars, cards, queue_vars, num_cards, buffer_list, allocated, completed>>

\* while (wcqs.mark_cards_dirty(dcq, stats)) {}: take_completed_buffer's
\* pop; a null node ends the loop.
WorkerDrainPop(w) ==
  /\ task.worker[w].pc = "drain"
  /\ IF buffer_list = <<>>
       THEN /\ task' = [task EXCEPT !.worker[w].pc = "flush"]
            /\ UNCHANGED buffer_list
       ELSE /\ buffer_list' = Tail(buffer_list)
            /\ task' = [task EXCEPT !.worker[w].pc = "take_sub",
                                    !.worker[w].node = Head(buffer_list)]
  /\ UNCHANGED <<task_vars, cards, queue_vars, num_cards, allocated, completed>>

\* Atomic::sub(&_num_cards, node->size()), then the filter's transform of
\* the node's entries.
WorkerDrainSub(w) ==
  /\ task.worker[w].pc = "take_sub"
  /\ LET me == task.worker[w]
         node == me.node
         tr == FilterTransform(filter, Region(node.buf, node.index, WcqsTransformSize(node, filter)))
     IN /\ num_cards' = num_cards - NodeSize(node)
        /\ task' = [task EXCEPT
                      !.worker[w] = [me EXCEPT
                         !.pc = "node_cards", !.written = tr.ptrs, !.i = 1,
                         !.flushlogs_stats = inc_written_cards_filtered(@, tr.dropped)]]
  /\ UNCHANGED <<task_vars, cards, queue_vars, buffer_list, allocated, completed>>

\* The end of the node's enqueue_clean_cards and deallocate_buffer(node).
WorkerDrainDeallocate(w) ==
  /\ task.worker[w].pc = "node_cards"
  /\ task.worker[w].i > Len(task.worker[w].written)
  /\ LET me == task.worker[w]
     IN /\ allocated' = deallocate_buffer(allocated, me.node.id)
        /\ task' = [task EXCEPT
                      !.worker[w] = [me EXCEPT
                         !.pc = "drain", !.node = NoNode, !.written = <<>>, !.i = 0,
                         !.dirtied = 0, !.filtered = 0,
                         !.flushlogs_stats = EccFinish(me, @)]]
  /\ UNCHANGED <<task_vars, cards, queue_vars, num_cards, buffer_list, completed>>

\* dcqs.flush_queue(dcq, tc._flushlogs_stats), the end of do_work.
WorkerFlush(w) ==
  /\ task.worker[w].pc = "flush"
  /\ completed' = completed + FlushedBuffers(task.worker[w].dcq)
  /\ task' = [task EXCEPT !.worker[w].pc = "done", !.worker[w].dcq = NullDcq]
  /\ UNCHANGED <<task_vars, cards, queue_vars, num_cards, buffer_list, allocated>>

\* NonJavaThreadFlushLogs::do_work, a serial sub-task run by one worker.
NonJavaThreadFlushLogs ==
  /\ task.active
  /\ ~task.non_java_done
  /\ dcq' = [t \in Threads |-> IF t \in NonJavaThreads THEN FlushDirtyCardQueue(dcq[t]) ELSE dcq[t]]
  /\ completed' = completed + Cardinality({t \in NonJavaThreads : ~DcqIsEmpty(dcq[t])})
  /\ stats' = [t \in Threads |-> IF t \in NonJavaThreads THEN ZeroStats ELSE stats[t]]
  /\ task' = [task EXCEPT !.non_java_done = TRUE,
                          !.non_java_mutator_stats =
                             AddStats(@, SumStats(stats, NonJavaThreads))]
  /\ UNCHANGED <<task_vars, cards, wcq, crdcq, num_cards, buffer_list, allocated>>

\* ConcurrentRefineThreadFlushLogs::do_work, the other serial sub-task.
ConcurrentRefineThreadFlushLogs ==
  /\ task.active
  /\ ~task.cr_done
  /\ crdcq' = [t \in Refiners |-> NullDcq]
  /\ completed' = completed + Cardinality({t \in Refiners : ~DcqIsEmpty(crdcq[t])})
  /\ task' = [task EXCEPT !.cr_done = TRUE]
  /\ UNCHANGED <<task_vars, cards, wcq, dcq, stats, num_cards, buffer_list, allocated>>

\* JavaThreadRetireTLABAndFlushLogs::do_work, step by step.
WorkerStep(w) ==
  \/ \E t \in JavaThreads : WorkerDoThread(w, t)
  \/ WorkerCard(w)
  \/ WorkerThreadFlush(w)
  \/ WorkerClaimDone(w)
  \/ WorkerDrainPop(w)
  \/ WorkerDrainSub(w)
  \/ WorkerDrainDeallocate(w)
  \/ WorkerFlush(w)

NextRetire ==
  \/ \E w \in Workers : \E t \in JavaThreads : WorkerDoThread(w, t)
  \/ \E w \in Workers : WorkerCard(w)
  \/ \E w \in Workers : WorkerThreadFlush(w)
  \/ \E w \in Workers : WorkerClaimDone(w)
  \/ \E w \in Workers : WorkerDrainPop(w)
  \/ \E w \in Workers : WorkerDrainSub(w)
  \/ \E w \in Workers : WorkerDrainDeallocate(w)
  \/ \E w \in Workers : WorkerFlush(w)
  \/ NonJavaThreadFlushLogs
  \/ ConcurrentRefineThreadFlushLogs

\* The work gang runs every worker until its do_work returns, and some
\* worker runs each serial sub-task.
SpecRetire ==
  /\ InitRetire
  /\ [][NextRetire]_vars
  /\ \A w \in Workers : WF_vars(WorkerStep(w))
  /\ WF_vars(NonJavaThreadFlushLogs)
  /\ WF_vars(ConcurrentRefineThreadFlushLogs)

\* Every sub-task of the batch task has finished.
RetireFinished ==
  /\ task.active
  /\ \A w \in Workers : task.worker[w].pc = "done"
  /\ task.non_java_done
  /\ task.cr_done

\* C12: with deferred dirtying active and several workers draining the
\* written card queue set at a safepoint, every worker's drain loop
\* terminates, and once all sub-tasks have finished buffer_list is empty,
\* num_cards = 0, every Java thread's written card queue is empty and
\* every thread's dirty card queue is empty.
RetirementDrainsEverything ==
  /\ <>RetireFinished
  /\ [](RetireFinished =>
          /\ buffer_list = <<>>
          /\ num_cards = 0
          /\ \A t \in JavaThreads : is_empty(wcq[t], filter)
          /\ \A t \in Threads : DcqIsEmpty(dcq[t])
          /\ \A t \in Refiners : DcqIsEmpty(crdcq[t])
          /\ \A w \in Workers : DcqIsEmpty(task.worker[w].dcq))

\* Both workers inside the drain loop at once, each holding a buffer it
\* took, while a Java thread's queues had entries to flush.
RetirementDrainsEverythingWitness ==
  /\ task.active
  /\ \A w \in Workers : task.worker[w].pc = "node_cards"
  /\ \E w \in Workers : task.worker[w].flushlogs_stats.written_cards > 0
  /\ completed > 0

(***************************************************************************)
(* G1ConcurrentRefineThreadsNeeded.  A double is modelled by the exact     *)
(* fraction [n, d] in lowest terms with d > 0; every quantity here is      *)
(* non-negative.  The sizes of the machine are scaled down: a heap region  *)
(* of GrainBytes bytes, an hour of OneHourMs milliseconds, a uint with     *)
(* the largest value UintMax.                                              *)
(***************************************************************************)
\* HeapRegion::GrainBytes
GrainBytes == 2
\* one_hour_ms
OneHourMs == 8
\* UINT_MAX
UintMax == 7

RECURSIVE Gcd(_, _)
Gcd(a, b) == IF b = 0 THEN a ELSE Gcd(b, a % b)

Rat(n, d) == LET g == Gcd(n, d) IN [n |-> n \div g, d |-> d \div g]

\* static_cast<double>(k)
ToDouble(k) == [n |-> k, d |-> 1]

RIsZero(a) == a.n = 0
RAdd(a, b) == Rat(a.n * b.d + b.n * a.d, a.d * b.d)
RMul(a, b) == Rat(a.n * b.n, a.d * b.d)
RDiv(a, b) == Rat(a.n * b.d, a.d * b.n)
RLe(a, b) == a.n * b.d <= b.n * a.d
MIN2(a, b) == IF RLe(a, b) THEN a ELSE b
MIN3(a, b, c) == MIN2(MIN2(a, b), c)
\* static_cast<size_t>(a): truncation
ToSize(a) == a.n \div a.d
\* ::ceil
Ceil(a) == ToDouble((a.n + a.d - 1) \div a.d)
\* ::round: to the nearest integer, halfway cases away from zero
Round(a) == ToDouble((2 * a.n + a.d) \div (2 * a.d))

\* The constructor.
NewThreadsNeeded(update_period_ms) ==
  [update_period_ms |-> update_period_ms,
   predicted_time_until_next_gc_ms |-> ToDouble(0),
   predicted_written_cards_at_next_gc |-> 0,
   predicted_dirty_cards_at_next_gc |-> 0,
   written_cards_deactivation_threshold |-> 0,
   threads_needed |-> 0]

predict_cards_at_next_gc(ctl, ncards, incoming_rate_ms) ==
  ncards + ToSize(RMul(incoming_rate_ms, ctl.predicted_time_until_next_gc_ms))

estimate_threads_needed(ctl, ncards, processing_rate_ms) ==
  RDiv(ToDouble(ncards), RMul(processing_rate_ms, ctl.predicted_time_until_next_gc_ms))

\* A predicted time that is not limited.
TimeNotLimited(raw_time_ms) == raw_time_ms

\* MIN2(raw_time_ms, one_hour_ms)
TimeLimitedToOneHour(raw_time_ms) == MIN2(raw_time_ms, ToDouble(OneHourMs))

\* The short horizon's result without the floor of one thread.
ActiveThreadsOnly(active_threads) == active_threads

\* MAX2(active_threads, 1u)
ShortHorizonThreads(active_threads) == IF active_threads > 1 THEN active_threads ELSE 1

\* A test that never finds the rates zero.
RatesNeverZero(dirtying_rate, refine_rate) == FALSE

\* (dirtying_rate == 0.0) && (refine_rate == 0.0)
BothRatesZero(dirtying_rate, refine_rate) == RIsZero(dirtying_rate) /\ RIsZero(refine_rate)

\* A threshold of what a thread dirties over a whole period.
WholePeriodThreshold(dirtying_rate, update_period_ms) ==
  ToSize(RMul(dirtying_rate, update_period_ms))

\* static_cast<size_t>(dirtying_rate * (_update_period_ms / 2.0))
DeactivationThreshold(dirtying_rate, update_period_ms) ==
  ToSize(RMul(dirtying_rate, RDiv(update_period_ms, ToDouble(2))))

\* The need for refinement: cards_to_refine and what it adds to nthreads.
RefineNeed(ctl, total_dirty_cards, target_num_dirty_cards, refine_rate) ==
  LET cards_to_refine == IF total_dirty_cards > target_num_dirty_cards
                           THEN total_dirty_cards - target_num_dirty_cards
                           ELSE 0
  IN IF cards_to_refine > 0
       THEN IF RIsZero(refine_rate)
              THEN ToDouble(1)
              ELSE estimate_threads_needed(ctl, cards_to_refine, refine_rate)
       ELSE ToDouble(0)

\* A need for dirtying that leaves the period's estimate out.
DirtyingNeedWithoutPeriod(ctl, total_written_cards, num_written_cards, dirtying_rate, incoming_dirty_rate) ==
  IF RIsZero(dirtying_rate)
    THEN ToDouble(1)
    ELSE LET minimum == estimate_threads_needed(ctl, total_written_cards, dirtying_rate)
         IN MIN2(RAdd(minimum, ToDouble(1)), RMul(ToDouble(2), minimum))

\* What deferred dirtying adds to nthreads.
DirtyingNeed(ctl, total_written_cards, num_written_cards, dirtying_rate, incoming_dirty_rate) ==
  IF RIsZero(dirtying_rate)
    THEN ToDouble(1)
    ELSE LET minimum == estimate_threads_needed(ctl, total_written_cards, dirtying_rate)
             period_capacity == RMul(dirtying_rate, ctl.update_period_ms)
             period_incoming == RMul(incoming_dirty_rate, ctl.update_period_ms)
             period_target == RAdd(ToDouble(num_written_cards), period_incoming)
             period_threads == RDiv(period_target, period_capacity)
         IN MIN3(RAdd(minimum, ToDouble(1)), RMul(ToDouble(2), minimum), period_threads)

\* A conversion that always rounds to the nearest integer.
AlwaysRound(nthreads, time_ms, update_period_ms) ==
  IF RLe(nthreads, ToDouble(1)) THEN ToDouble(1) ELSE Round(nthreads)

\* The conversion of nthreads to an integral value.
Integralize(nthreads, time_ms, update_period_ms) ==
  IF RLe(nthreads, ToDouble(1))
    THEN ToDouble(1)
    ELSE IF RLe(time_ms, RMul(update_period_ms, ToDouble(5)))
           THEN Ceil(nthreads)
           ELSE Round(nthreads)

\* The conversion to size_t without the limit.
NotLimitedToUint(nthreads) == ToSize(nthreads)

\* static_cast<uint>(MIN2<size_t>(nthreads, UINT_MAX))
LimitToUint(nthreads) == IF ToSize(nthreads) <= UintMax THEN ToSize(nthreads) ELSE UintMax

\* G1ConcurrentRefineThreadsNeeded::update.  a holds the arguments,
\* analytics the predictions of G1Analytics, defer the value of
\* G1DeferDirtyingWrittenCards.  path and nthreads tell which return was
\* taken and the value of the local nthreads before its conversion.
update(ctl, a, analytics, defer) ==
  LET alloc_bytes_rate == RMul(analytics.alloc_rate_ms, ToDouble(GrainBytes))
      time_ms == IF RIsZero(alloc_bytes_rate)
                   THEN ToDouble(0)
                   ELSE TimeLimitedToOneHour(RDiv(ToDouble(a.available_bytes), alloc_bytes_rate))
      c1 == [ctl EXCEPT !.predicted_time_until_next_gc_ms = time_ms]
      total_written_cards ==
        predict_cards_at_next_gc(c1, a.num_written_cards, analytics.written_cards_rate_ms)
      total_dirty_cards ==
        predict_cards_at_next_gc(c1, a.num_dirty_cards, analytics.dirtied_cards_rate_ms)
      c2 == [c1 EXCEPT !.predicted_written_cards_at_next_gc = total_written_cards,
                       !.predicted_dirty_cards_at_next_gc = total_dirty_cards,
                       !.written_cards_deactivation_threshold = 0]
      dirtying_rate == analytics.concurrent_dirtying_rate_ms
      refine_rate == analytics.concurrent_refine_rate_ms
  IN IF RLe(time_ms, ctl.update_period_ms)
       THEN [ctl |-> [c2 EXCEPT !.threads_needed = ShortHorizonThreads(a.active_threads)],
             path |-> "short", nthreads |-> ToDouble(0)]
       ELSE IF BothRatesZero(dirtying_rate, refine_rate)
         THEN [ctl |-> [c2 EXCEPT !.threads_needed = 1],
               path |-> "zero", nthreads |-> ToDouble(0)]
         ELSE LET refine == RefineNeed(c2, total_dirty_cards, a.target_num_dirty_cards,
                                       refine_rate)
                  nthreads == IF defer
                                THEN RAdd(refine,
                                          DirtyingNeed(c2, total_written_cards,
                                                       a.num_written_cards, dirtying_rate,
                                                       analytics.dirtied_cards_rate_ms))
                                ELSE refine
                  threshold == IF defer
                                 THEN DeactivationThreshold(dirtying_rate, ctl.update_period_ms)
                                 ELSE 0
              IN [ctl |-> [c2 EXCEPT
                            !.written_cards_deactivation_threshold = threshold,
                            !.threads_needed =
                               LimitToUint(Integralize(nthreads, time_ms, ctl.update_period_ms))],
                  path |-> "full", nthreads |-> nthreads]

(***************************************************************************)
(* update applied on its own to a controller that is newly constructed or  *)
(* has been updated before, under deferred dirtying or without it.         *)
(***************************************************************************)
Rates(S) == {Rat(x[1], x[2]) : x \in S}

UpdateArgs ==
  [active_threads : {0, 1, 3}, available_bytes : {0, 4, 64},
   num_written_cards : {0, 3}, num_dirty_cards : {0, 6},
   target_num_dirty_cards : {0, 4}]

Analytics ==
  [alloc_rate_ms : Rates({<<0, 1>>, <<1, 2>>, <<2, 1>>}),
   written_cards_rate_ms : Rates({<<0, 1>>, <<1, 2>>}),
   dirtied_cards_rate_ms : Rates({<<0, 1>>, <<3, 4>>}),
   concurrent_dirtying_rate_ms : Rates({<<0, 1>>, <<1, 2>>, <<2, 1>>}),
   concurrent_refine_rate_ms : Rates({<<0, 1>>, <<1, 4>>, <<1, 1>>})]

UpdatePeriods == {ToDouble(1), ToDouble(2)}

\* An earlier update that left a threshold and a count of threads.
EarlierUpdate(ctl) ==
  update(ctl,
         [active_threads |-> 1, available_bytes |-> 64, num_written_cards |-> 3,
          num_dirty_cards |-> 6, target_num_dirty_cards |-> 0],
         [alloc_rate_ms |-> ToDouble(2), written_cards_rate_ms |-> Rat(1, 2),
          dirtied_cards_rate_ms |-> Rat(3, 4), concurrent_dirtying_rate_ms |-> ToDouble(2),
          concurrent_refine_rate_ms |-> ToDouble(1)],
         TRUE).ctl

InitCtl ==
  /\ Constructed
  /\ prot = NoProt
  /\ ilist = ConstructedLists
  /\ filter = FilterNone
  /\ mode \in {"indirect", "deferred"}
  /\ cards = [p \in Ptrs |-> Clean]
  /\ heap = OneAddr
  /\ live = {}

ApplyUpdate ==
  /\ call = NoCall
  /\ \E period \in UpdatePeriods, a \in UpdateArgs, analytics \in Analytics, earlier \in BOOLEAN :
       LET ctl == IF earlier /\ mode = "deferred"
                    THEN EarlierUpdate(NewThreadsNeeded(period))
                    ELSE NewThreadsNeeded(period)
       IN /\ call' = [fn |-> "update", ctl |-> ctl, a |-> a, analytics |-> analytics]
          /\ ret' = update(ctl, a, analytics, mode = "deferred")
  /\ UNCHANGED machine_vars

NextCtl ==
  \/ ApplyUpdate
  \/ Return

SpecCtl == InitCtl /\ [][NextCtl]_vars

(***************************************************************************)
(* Properties of G1ConcurrentRefineThreadsNeeded::update.  The quantities  *)
(* a property speaks of are computed here from the call's inputs with      *)
(* integer arithmetic on numerators and denominators.                      *)
(***************************************************************************)
IsUpdate == call.fn = "update"

\* The allocation rate in bytes per millisecond is zero.
AllocRateZero == call.analytics.alloc_rate_ms.n = 0

\* available_bytes / (alloc_region_rate * region bytes) <= the fraction x.
RawTimeAtMost(x) ==
  call.a.available_bytes * call.analytics.alloc_rate_ms.d * x.d
    <= x.n * call.analytics.alloc_rate_ms.n * GrainBytes

\* The fraction x is available_bytes / (alloc_region_rate * region bytes).
RawTimeIs(x) ==
  call.a.available_bytes * call.analytics.alloc_rate_ms.d * x.d
    = x.n * call.analytics.alloc_rate_ms.n * GrainBytes

\* The predicted time until the next GC is at most k update periods.
TimeWithinPeriods(k) ==
  \/ AllocRateZero
  \/ RawTimeAtMost([n |-> k * call.ctl.update_period_ms.n, d |-> call.ctl.update_period_ms.d])
  \/ OneHourMs * call.ctl.update_period_ms.d <= k * call.ctl.update_period_ms.n

RatesBothZero ==
  /\ call.analytics.concurrent_dirtying_rate_ms.n = 0
  /\ call.analytics.concurrent_refine_rate_ms.n = 0

NoEarlyReturn == ~TimeWithinPeriods(1) /\ ~RatesBothZero

\* C14: for every input to update, if the predicted time until the next GC
\* is at most the update period (a zero allocation rate, with the time
\* taken as 0, included), threads_needed is max(active_threads, 1)
\* whatever the other inputs and predictions are.
ShortHorizonKeepsActiveThreads ==
  (IsUpdate /\ TimeWithinPeriods(1)) =>
    /\ ret.ctl.threads_needed >= 1
    /\ ret.ctl.threads_needed >= call.a.active_threads
    /\ ret.ctl.threads_needed \in {1, call.a.active_threads}

\* A short horizon with no active thread although cards are waiting and
\* the rates predict a need.
ShortHorizonKeepsActiveThreadsWitness ==
  /\ IsUpdate
  /\ ~AllocRateZero
  /\ TimeWithinPeriods(1)
  /\ call.a.active_threads = 0
  /\ call.a.num_dirty_cards > call.a.target_num_dirty_cards
  /\ ~RatesBothZero
  /\ ret.ctl.threads_needed = 1

\* C15 as stated: for every input to update with the predicted dirtying
\* rate and the predicted refine rate both zero, threads_needed is 1 after
\* the call.
BothRatesZeroGivesOne ==
  (IsUpdate /\ RatesBothZero) => ret.ctl.threads_needed = 1

\* C15: for every input to update with both rates zero and a predicted
\* time until the next GC above the update period, threads_needed is 1
\* after the call.
BothRatesZeroBeyondPeriodGivesOne ==
  (IsUpdate /\ RatesBothZero /\ ~TimeWithinPeriods(1)) => ret.ctl.threads_needed = 1

\* Both rates zero beyond the period, with three threads active, cards to
\* refine and deferred dirtying.
BothRatesZeroBeyondPeriodGivesOneWitness ==
  /\ IsUpdate
  /\ RatesBothZero
  /\ ~TimeWithinPeriods(1)
  /\ call.a.active_threads = 3
  /\ call.a.num_dirty_cards > call.a.target_num_dirty_cards
  /\ mode = "deferred"
  /\ ret.ctl.threads_needed = 1

\* C16: after update the predicted time until the next GC is 0 when the
\* predicted allocation rate is zero, and otherwise the smaller of
\* available_bytes / (alloc_region_rate * region bytes) and one hour; it
\* never exceeds one hour.
PredictedTimeLimitedToOneHour ==
  IsUpdate =>
    LET time_ms == ret.ctl.predicted_time_until_next_gc_ms
    IN /\ time_ms.n <= OneHourMs * time_ms.d
       /\ IF AllocRateZero
            THEN time_ms.n = 0
            ELSE IF RawTimeAtMost(ToDouble(OneHourMs))
                   THEN RawTimeIs(time_ms)
                   ELSE time_ms = ToDouble(OneHourMs)

\* A ratio above one hour, cut to one hour.
PredictedTimeLimitedToOneHourWitness ==
  /\ IsUpdate
  /\ ~AllocRateZero
  /\ ~RawTimeAtMost(ToDouble(OneHourMs))
  /\ ret.ctl.predicted_time_until_next_gc_ms = ToDouble(OneHourMs)

\* C17: after update the written-cards deactivation threshold is
\* dirtying_rate * update_period / 2 truncated to an integer when deferred
\* dirtying is enabled and neither early return was taken, and 0 in every
\* other case, whatever it was before the call.
ThresholdHalfPeriodOrZero ==
  IsUpdate =>
    LET rate == call.analytics.concurrent_dirtying_rate_ms
        period == call.ctl.update_period_ms
    IN ret.ctl.written_cards_deactivation_threshold =
         IF mode = "deferred" /\ NoEarlyReturn
           THEN (rate.n * period.n) \div (rate.d * period.d * 2)
           ELSE 0

\* A controller that had a threshold and takes the short horizon's return.
ThresholdHalfPeriodOrZeroWitness ==
  /\ IsUpdate
  /\ mode = "deferred"
  /\ call.ctl.written_cards_deactivation_threshold > 0
  /\ TimeWithinPeriods(1)
  /\ call.analytics.concurrent_dirtying_rate_ms.n > 0
  /\ ret.ctl.written_cards_deactivation_threshold = 0

\* The predicted time of a call that takes neither early return.
TimeToGc == ret.ctl.predicted_time_until_next_gc_ms

\* The cards predicted at the next GC: those present and those incoming
\* over the predicted time.
PredictedCards(present, rate) == present + (rate.n * TimeToGc.n) \div (rate.d * TimeToGc.d)

\* The refine need as the claim gives it.
ClaimedRefineNeed ==
  LET predicted == PredictedCards(call.a.num_dirty_cards, call.analytics.dirtied_cards_rate_ms)
      rate == call.analytics.concurrent_refine_rate_ms
  IN IF predicted <= call.a.target_num_dirty_cards THEN ToDouble(0)
     ELSE IF rate.n = 0 THEN ToDouble(1)
     ELSE Rat((predicted - call.a.target_num_dirty_cards) * rate.d * TimeToGc.d,
              rate.n * TimeToGc.n)

\* The dirtying need as the claim gives it.
ClaimedDirtyingNeed ==
  LET rate == call.analytics.concurrent_dirtying_rate_ms
      incoming == call.analytics.dirtied_cards_rate_ms
      period == call.ctl.update_period_ms
      written == PredictedCards(call.a.num_written_cards, call.analytics.written_cards_rate_ms)
      min_cts == Rat(written * rate.d * TimeToGc.d, rate.n * TimeToGc.n)
      period_threads ==
        Rat((call.a.num_written_cards * incoming.d * period.d + incoming.n * period.n)
              * rate.d * period.d,
            incoming.d * period.d * rate.n * period.n)
  IN IF rate.n = 0 THEN ToDouble(1)
     ELSE MIN3(RAdd(min_cts, ToDouble(1)), RMul(ToDouble(2), min_cts), period_threads)

\* C18: when neither early return is taken, the thread need update
\* accumulates is the refine need (0 if the predicted dirty cards are at
\* most the target, 1.0 if refine_rate is 0, else cards_to_refine /
\* (refine_rate * time_to_gc)) plus, only when deferred dirtying is
\* enabled, the dirtying need (1.0 if dirtying_rate is 0, else
\* min(min_cts + 1, 2 * min_cts, period_threads)).
NeedIsRefinePlusDirtying ==
  (IsUpdate /\ NoEarlyReturn) =>
    /\ ret.path = "full"
    /\ ret.nthreads = IF mode = "deferred"
                        THEN RAdd(ClaimedRefineNeed, ClaimedDirtyingNeed)
                        ELSE ClaimedRefineNeed

\* Deferred dirtying with a refine need and a dirtying need, the period's
\* estimate the smallest of the three.
NeedIsRefinePlusDirtyingWitness ==
  /\ IsUpdate
  /\ NoEarlyReturn
  /\ mode = "deferred"
  /\ call.analytics.concurrent_dirtying_rate_ms.n > 0
  /\ call.analytics.concurrent_refine_rate_ms.n > 0
  /\ ClaimedRefineNeed.n > 0
  /\ ClaimedDirtyingNeed.n > 0
  /\ ret.nthreads = RAdd(ClaimedRefineNeed, ClaimedDirtyingNeed)
  /\ ~RLe(RMul(ToDouble(2), estimate_threads_needed(ret.ctl,
               ret.ctl.predicted_written_cards_at_next_gc,
               call.analytics.concurrent_dirtying_rate_ms)),
          ClaimedDirtyingNeed)

\* k is the integer the need n is converted to: 1 for n <= 1, the least
\* integer not below n within five periods, else an integer nearest to n.
ConvertedNeed(n, k) ==
  IF n.n <= n.d THEN k = 1
  ELSE IF TimeWithinPeriods(5)
         THEN k * n.d >= n.n /\ (k - 1) * n.d < n.n
         ELSE 2 * (k * n.d - n.n) <= n.d /\ 2 * (n.n - k * n.d) <= n.d

\* C19: update converts the accumulated need n into threads_needed as 1 if
\* n <= 1, otherwise ceil(n) if time_to_gc <= 5 * update_period, otherwise
\* n rounded to the nearest integer; the result is then limited to
\* UINT_MAX.
NeedConvertedAndLimited ==
  (IsUpdate /\ NoEarlyReturn) =>
    \E k \in 1 .. (ret.nthreads.n \div ret.nthreads.d + 1) :
      /\ ConvertedNeed(ret.nthreads, k)
      /\ ret.ctl.threads_needed = IF k <= UintMax THEN k ELSE UintMax

\* Beyond five periods a need above 1 with a fraction below a half,
\* rounded down.
NeedConvertedAndLimitedWitness ==
  /\ IsUpdate
  /\ NoEarlyReturn
  /\ ~TimeWithinPeriods(5)
  /\ ret.nthreads.n > ret.nthreads.d
  /\ ret.ctl.threads_needed > 1
  /\ ret.ctl.threads_needed * ret.nthreads.d < ret.nthreads.n

(***************************************************************************)
(* ThreadCrashProtection.  prot.crash_protection is the thread's           *)
(* crash_protection() pointer: 0 for nullptr, else the position in frames  *)
(* of the call whose protection object it points to.  frames are the calls *)
(* of ThreadCrashProtection::call whose callbacks are running, the         *)
(* outermost first; returned lists the calls that have returned.           *)
(***************************************************************************)
\* Nesting of protected calls.
MaxDepth == 2
\* Calls that return in a run.
MaxCalls == 2

non_prot_vars == <<filter, mode, cards, wcq, dcq, crdcq, stats, num_cards, buffer_list,
                   should_mark, allocated, completed, pc, loc, last_store, heap, live,
                   task, call, ret, ilist>>

\* ThreadCrashProtection::is_protected
is_protected(p) == p.current_thread /\ p.crash_protection # 0

\* A call that reports success whatever setjmp returned.
ResultIgnoringSetjmp(setjmp_value) == TRUE

\* call_with_protection's result: true on the path where setjmp returned 0.
ResultOfSetjmp(setjmp_value) == setjmp_value = 0

\* A call that has returned.
Returned(frame, result, aborted) ==
  [result |-> result, aborted |-> aborted, was_protected |-> frame.was_protected,
   current_thread |-> frame.protection]

InitProt ==
  /\ Constructed
  /\ filter = FilterNone
  /\ mode = "inline"
  /\ cards = [p \in Ptrs |-> Clean]
  /\ heap = OneAddr
  /\ live = {}
  /\ prot \in {[NoProt EXCEPT !.current_thread = b] : b \in BOOLEAN}
  /\ ilist = ConstructedLists

\* ThreadCrashProtection::call up to the callback's invocation: with a
\* current thread the protection object is constructed, setjmp returns 0
\* and the object is installed; with none the callback is invoked as is.
ProtectedCall ==
  /\ Len(prot.frames) < MaxDepth
  /\ Len(prot.returned) < MaxCalls
  /\ prot' = [prot EXCEPT
                !.frames = Append(@, [old_protection |-> prot.crash_protection,
                                      protection |-> prot.current_thread,
                                      was_protected |-> "unknown"]),
                !.crash_protection = IF prot.current_thread
                                       THEN Len(prot.frames) + 1
                                       ELSE @]
  /\ UNCHANGED non_prot_vars

\* The running callback asks is_protected() and keeps the answer.
CallbackChecksProtection ==
  /\ prot.frames # <<>>
  /\ prot.frames[Len(prot.frames)].was_protected = "unknown"
  /\ prot' = [prot EXCEPT !.frames[Len(prot.frames)].was_protected =
                             IF is_protected(prot) THEN "yes" ELSE "no"]
  /\ UNCHANGED non_prot_vars

\* The callback returns: the destructor puts _old_protection back and the
\* call returns on the path where setjmp returned 0.
CallbackReturns ==
  /\ prot.frames # <<>>
  /\ LET frame == prot.frames[Len(prot.frames)]
     IN prot' = [prot EXCEPT
                   !.frames = SubSeq(@, 1, Len(@) - 1),
                   !.crash_protection = IF frame.protection THEN frame.old_protection ELSE @,
                   !.returned = Append(@, Returned(frame,
                                                   IF frame.protection
                                                     THEN ResultOfSetjmp(0)
                                                     ELSE TRUE,
                                                   FALSE))]
  /\ UNCHANGED non_prot_vars

\* An unwind that resumes the outermost protector of the thread.
UnwindToOutermost ==
  /\ prot.frames # <<>>
  /\ is_protected(prot)
  /\ prot' = [prot EXCEPT
                !.crash_protection = prot.frames[1].old_protection,
                !.frames = <<>>,
                !.returned = Append(@, Returned(prot.frames[1], ResultOfSetjmp(1), TRUE))]
  /\ UNCHANGED non_prot_vars

\* unwind_if_protected in a protected scope, as the error reporting calls
\* it: the protection is removed and longjmp(..., 1) resumes the protector,
\* whose setjmp returns 1.
Unwind ==
  /\ prot.frames # <<>>
  /\ is_protected(prot)
  /\ LET current == prot.crash_protection
         frame == prot.frames[current]
     IN prot' = [prot EXCEPT
                   !.crash_protection = frame.old_protection,
                   !.frames = SubSeq(@, 1, current - 1),
                   !.returned = Append(@, Returned(frame, ResultOfSetjmp(1), TRUE))]
  /\ UNCHANGED non_prot_vars

\* unwind_if_protected with no current thread or no protection: nothing.
UnwindDoesNothing ==
  /\ ~is_protected(prot)
  /\ UNCHANGED vars

NextProt ==
  \/ ProtectedCall
  \/ CallbackChecksProtection
  \/ CallbackReturns
  \/ Unwind
  \/ UnwindDoesNothing

SpecProt == InitProt /\ [][NextProt]_vars

\* Every call that has returned gave true after a normal return of its
\* callback and false after an abort.
ResultTellsAbort ==
  \A k \in 1 .. Len(prot.returned) :
    prot.returned[k].result = ~prot.returned[k].aborted

\* C20 as stated: ThreadCrashProtection::call returns true when the
\* callback returns normally and false when its invocation is aborted by
\* unwind_if_protected; in both cases is_protected() is true on the
\* calling thread while the callback runs.
CallProtectsCallback ==
  /\ ResultTellsAbort
  /\ prot.frames # <<>> => is_protected(prot)
  /\ \A k \in 1 .. Len(prot.returned) : prot.returned[k].was_protected # "no"

\* C20: when the caller has a current Thread, ThreadCrashProtection::call
\* returns true when the callback returns normally and false when its
\* invocation is aborted by unwind_if_protected, and is_protected() is
\* true while the callback runs; without a current Thread the callback
\* runs unprotected, is_protected() is false and call returns true.
CallProtectsCallbackOfThread ==
  /\ ResultTellsAbort
  /\ prot.frames # <<>> => (is_protected(prot) <=> prot.current_thread)
  /\ \A k \in 1 .. Len(prot.returned) :
       /\ prot.returned[k].current_thread => prot.returned[k].was_protected # "no"
       /\ ~prot.returned[k].current_thread =>
            /\ prot.returned[k].was_protected # "yes"
            /\ prot.returned[k].result

\* A nested call aborted after its callback saw the protection, then the
\* outer call returning normally.
CallProtectsCallbackOfThreadWitness ==
  /\ Len(prot.returned) = 2
  /\ prot.returned[1].aborted
  /\ ~prot.returned[1].result
  /\ prot.returned[1].was_protected = "yes"
  /\ ~prot.returned[2].aborted
  /\ prot.returned[2].result
  /\ prot.returned[2].was_protected = "yes"

\* The protection that is current in a thread whose calls in progress are
\* `frames`: the protector of the innermost call, none outside every call.
InnermostProtector(frames) == Len(frames)

\* C21: for any nesting depth of ThreadCrashProtection::call on one
\* thread, an abort unwinds only to the innermost protector, and after
\* each call returns (normally or aborted) the thread's current crash
\* protection is exactly the protection that was current when that call
\* began.
NestedCallsRestoreProtection ==
  /\ [](prot.current_thread => prot.crash_protection = InnermostProtector(prot.frames))
  /\ [][/\ ProtectedCall =>
             prot.frames = SubSeq(prot'.frames, 1, Len(prot'.frames) - 1)
        /\ (CallbackReturns \/ Unwind) =>
             /\ prot'.frames = SubSeq(prot.frames, 1, Len(prot.frames) - 1)
             /\ Len(prot'.returned) = Len(prot.returned) + 1
             /\ prot.current_thread =>
                  prot'.crash_protection = InnermostProtector(prot'.frames)
        /\ Unwind =>
             /\ prot'.returned[Len(prot'.returned)].aborted
             /\ ~prot'.returned[Len(prot'.returned)].result]_vars

\* An abort at nesting depth two has resumed the inner protector: the outer
\* call is still in progress under its own protection.
NestedCallsRestoreProtectionWitness ==
  /\ prot.current_thread
  /\ Len(prot.frames) = 1
  /\ prot.crash_protection = 1
  /\ Len(prot.returned) = 1
  /\ prot.returned[1].aborted

(***************************************************************************)
(* IntrusiveList (intrusiveList.hpp): doubly-linked lists whose links are  *)
(* the _prev and _next members of the IntrusiveListEntry of each element   *)
(* and of each list's root entry.  A list state S is the record of every   *)
(* entry and of every list's _size (all lists have has_size = true); an    *)
(* iterator is its encoded value; is_forward is passed as fwd.             *)
(***************************************************************************)
\* What ilist holds besides the last call.
ListState(il) == [entry |-> il.entry, _size |-> il._size]

\* IntrusiveListEntry::is_attached
is_attached(S, v) == S.entry[v]._prev # Null

\* IOps::next and IOps::prev, of an iterator or of a reference.
next(S, i) == S.entry[i]._next
prev(S, i) == S.entry[i]._prev

\* IOps::attach_impl (both overloads) and IOps::iter_attach_impl.
attach_impl(S, p, n) == [S EXCEPT !.entry[p]._next = n, !.entry[n]._prev = p]

\* IOps::successor
successor(fwd, S, value) == IF fwd THEN next(S, value) ELSE prev(S, value)

\* IOps::predecessor and IOps::iter_predecessor
predecessor(fwd, S, value) == IF fwd THEN prev(S, value) ELSE next(S, value)

\* IOps::attach and IOps::iter_attach
attach(fwd, S, pred, succ) ==
  IF fwd THEN attach_impl(S, pred, succ) ELSE attach_impl(S, succ, pred)

\* IOps::make_begin_iterator: begin(), cbegin(), rbegin(), crbegin().
make_begin_iterator(fwd, S, l) == successor(fwd, S, add_tag_to_root_entry(l))

\* IOps::make_end_iterator: end(), cend(), rend(), crend().
make_end_iterator(l) == add_tag_to_root_entry(l)

\* IntrusiveListImpl::distance
RECURSIVE distance(_, _, _)
distance(S, from, to) == IF from # to THEN 1 + distance(S, next(S, from), to) ELSE 0

\* IntrusiveList::length
length(S, l) == distance(S, make_begin_iterator(TRUE, S, l), make_end_iterator(l))

\* SizeBase<true>::size
size(S, l) == S._size[l]

\* IntrusiveList::empty
empty(S, l) == make_begin_iterator(TRUE, S, l) = make_end_iterator(l)

\* SizeBase<true>::increase_size
increase_size(S, l, n) == [S EXCEPT !._size[l] = @ + n]

\* A decrease_size that leaves _size as it is.
KeepSize(S, l, n) == S

\* SizeBase<true>::decrease_size
decrease_size(S, l, n) == [S EXCEPT !._size[l] = @ - n]

\* A detach that leaves the links of the removed entry in place.
DetachKeepingLinks(S, l, value) == decrease_size(S, l, 1)

\* IntrusiveList::detach, with IntrusiveListImpl::detach.
detach(S, l, value) == decrease_size([S EXCEPT !.entry[value] = IntrusiveListEntry], l, 1)

\* An insert_impl that puts value after pos.
InsertAfter(fwd, S, l, pos, value) ==
  LET S1 == attach(fwd, S, value, successor(fwd, S, pos))
      S2 == attach(fwd, S1, pos, value)
  IN [state |-> increase_size(S2, l, 1), result |-> value]

\* IntrusiveList::insert_impl
insert_impl(fwd, S, l, pos, value) ==
  LET S1 == attach(fwd, S, predecessor(fwd, S, pos), value)
      S2 == attach(fwd, S1, value, pos)
  IN [state |-> increase_size(S2, l, 1), result |-> value]

\* IntrusiveList::erase_one_and_dispose with the NopDisposer.
erase_one_and_dispose(fwd, S, l, i) ==
  LET value == i
      i2 == successor(fwd, S, value)
      S1 == attach(fwd, S, predecessor(fwd, S, value), i2)
  IN [state |-> detach(S1, l, value), result |-> i2]

\* The do-while loop of erase_range_and_dispose.
RECURSIVE erase_range_loop(_, _, _, _, _)
erase_range_loop(fwd, S, l, from, to) ==
  LET value == from
      from2 == successor(fwd, S, value)
      S1 == detach(S, l, value)
  IN IF from2 # to THEN erase_range_loop(fwd, S1, l, from2, to) ELSE S1

\* IntrusiveList::erase_range_and_dispose with the NopDisposer.
erase_range_and_dispose(fwd, S, l, from, to) ==
  [state |-> IF from # to
               THEN erase_range_loop(fwd, attach(fwd, S, predecessor(fwd, S, from), to),
                                     l, from, to)
               ELSE S,
   result |-> to]

\* The while loop of erase_and_dispose_if; predicate is the set of the
\* elements it is true of.
RECURSIVE erase_if_loop(_, _, _, _, _, _)
erase_if_loop(S, l, pos, end, predicate, removed) ==
  IF pos # end
    THEN IF pos \in predicate
           THEN LET erased == erase_one_and_dispose(TRUE, S, l, pos)
                IN erase_if_loop(erased.state, l, erased.result, end, predicate, removed + 1)
           ELSE erase_if_loop(S, l, next(S, pos), end, predicate, removed)
    ELSE [state |-> S, result |-> removed]

\* IntrusiveList::erase_and_dispose_if with the NopDisposer.
erase_and_dispose_if(S, l, predicate) ==
  erase_if_loop(S, l, make_begin_iterator(TRUE, S, l), make_end_iterator(l), predicate, 0)

\* A splice_transfer that puts the range at the end of this list.
TransferToEnd(S, l, pos, from_list, from, to) ==
  LET to_pred == prev(S, to)
      S1 == attach(TRUE, S, predecessor(TRUE, S, from), to)
      S2 == attach(TRUE, S1, predecessor(TRUE, S1, make_end_iterator(l)), from)
      S3 == attach(TRUE, S2, to_pred, make_end_iterator(l))
  IN [state |-> S3, result |-> from]

\* IntrusiveList::splice_transfer
splice_transfer(S, l, pos, from_list, from, to) ==
  LET to_pred == prev(S, to)
      from_value == from
      S1 == attach(TRUE, S, predecessor(TRUE, S, from_value), to)
      S2 == attach(TRUE, S1, predecessor(TRUE, S1, pos), from_value)
      S3 == attach(TRUE, S2, to_pred, pos)
  IN [state |-> S3, result |-> from_value]

\* IntrusiveList::splice(pos, from_list, from, to, n)
splice_sized(S, l, pos, from_list, from, to, n) ==
  IF from = to
    THEN [state |-> S, result |-> pos]
    ELSE IF l = from_list /\ pos = to
           THEN [state |-> S, result |-> from]
           ELSE splice_transfer(increase_size(decrease_size(S, from_list, n), l, n),
                                l, pos, from_list, from, to)

\* IntrusiveList::splice_adjust_size for a from_list with has_size.
splice_adjust_size(S, l, from_list, from, to) ==
  LET transferring ==
        IF /\ from = make_begin_iterator(TRUE, S, from_list)
           /\ to = make_end_iterator(from_list)
          THEN size(S, from_list)
          ELSE distance(S, from, to)
  IN increase_size(decrease_size(S, from_list, transferring), l, transferring)

\* IntrusiveList::splice(pos, from_list, from, to)
splice_range(S, l, pos, from_list, from, to) ==
  IF from = to
    THEN [state |-> S, result |-> pos]
    ELSE IF l = from_list /\ pos = to
           THEN [state |-> S, result |-> from]
           ELSE splice_transfer(IF l # from_list
                                  THEN splice_adjust_size(S, l, from_list, from, to)
                                  ELSE S,
                                l, pos, from_list, from, to)

\* IntrusiveList::splice(pos, from_list), through splice_all.
splice_all(S, l, pos, from_list) ==
  splice_sized(S, l, pos, from_list, make_begin_iterator(TRUE, S, from_list),
               make_end_iterator(from_list), size(S, from_list))

\* IntrusiveList::splice(pos, from_list, from)
splice_one(S, l, pos, from_list, from) ==
  LET from_value == from
      S1 == attach(TRUE, S, predecessor(TRUE, S, from_value), successor(TRUE, S, from_value))
      S2 == decrease_size(S1, from_list, 1)
      S3 == attach(TRUE, S2, predecessor(TRUE, S2, pos), from_value)
      S4 == attach(TRUE, S3, from_value, pos)
  IN [state |-> increase_size(S4, l, 1), result |-> from_value]

\* IntrusiveList::swap_impl for two lists with has_size.
swap_impl(S, list1, list2) ==
  LET old_size == size(S, list2)
      old_start == make_begin_iterator(TRUE, S, list2)
      S1 == splice_all(S, list2, old_start, list1).state
  IN splice_sized(S1, list1, make_end_iterator(list1), list2, old_start,
                  make_end_iterator(list2), old_size).state

\* The elements an iteration from from up to to visits, in order.
RECURSIVE Visited(_, _, _, _, _)
Visited(fwd, S, from, to, fuel) ==
  IF from = to \/ from \notin Elems \/ fuel = 0
    THEN <<>>
    ELSE <<from>> \o Visited(fwd, S, successor(fwd, S, from), to, fuel - 1)

\* The elements of list l from begin() to end(), and from rbegin() to rend().
ListSeq(S, l) ==
  Visited(TRUE, S, make_begin_iterator(TRUE, S, l), make_end_iterator(l), NumElems)
ListSeqDir(fwd, S, l) ==
  Visited(fwd, S, make_begin_iterator(fwd, S, l), make_end_iterator(l), NumElems)

\* The valid iterators of list l: its elements and its end.
Iterators(S, l) == Range(ListSeq(S, l)) \cup {make_end_iterator(l)}

\* Where iterator i stands in an iteration over list l.
PlaceOf(fwd, S, l, i) ==
  LET seq == ListSeqDir(fwd, S, l)
  IN IF i = make_end_iterator(l)
       THEN Len(seq) + 1
       ELSE CHOOSE k \in 1 .. Len(seq) : seq[k] = i

\* from and to form a valid range for list l.
ValidRange(fwd, S, l, from, to) ==
  /\ from \in Iterators(S, l)
  /\ to \in Iterators(S, l)
  /\ PlaceOf(fwd, S, l, from) <= PlaceOf(fwd, S, l, to)

\* value is in no list.
InNoList(S, value) == \A l \in ListIds : value \notin Range(ListSeq(S, l))

non_list_vars == <<filter, mode, cards, wcq, dcq, crdcq, stats, num_cards, buffer_list,
                   should_mark, allocated, completed, pc, loc, last_store, heap, live,
                   task, call, ret, prot>>

\* The caller has made call c on a list; r is the state the call leaves and
\* its result.
ListCalled(r, c) ==
  /\ ilist' = [entry |-> r.state.entry, _size |-> r.state._size,
               last |-> [c EXCEPT !.result = r.result]]
  /\ UNCHANGED non_list_vars

InitList ==
  /\ Constructed
  /\ filter = FilterNone
  /\ mode = "inline"
  /\ cards = [p \in Ptrs |-> Clean]
  /\ heap = OneAddr
  /\ live = {}
  /\ prot = NoProt
  /\ ilist = ConstructedLists

\* iterator insert(const_iterator pos, reference value) and its
\* reverse_iterator overload.
ListInsert(l, fwd, pos, value) ==
  /\ pos \in Iterators(ListState(ilist), l)
  /\ InNoList(ListState(ilist), value)
  /\ ListCalled(insert_impl(fwd, ListState(ilist), l, pos, value),
                [NoListCall EXCEPT !.op = "insert", !.is_forward = fwd, !.list = l,
                                   !.pos = pos, !.value = value])

\* void push_front(reference value)
ListPushFront(l, value) ==
  /\ InNoList(ListState(ilist), value)
  /\ ListCalled(insert_impl(TRUE, ListState(ilist), l,
                            make_begin_iterator(TRUE, ListState(ilist), l), value),
                [NoListCall EXCEPT !.op = "push_front", !.list = l, !.value = value])

\* void push_back(reference value)
ListPushBack(l, value) ==
  /\ InNoList(ListState(ilist), value)
  /\ ListCalled(insert_impl(TRUE, ListState(ilist), l, make_end_iterator(l), value),
                [NoListCall EXCEPT !.op = "push_back", !.list = l, !.value = value])

\* void pop_front(): erase_and_dispose(begin(), disposer)
ListPopFront(l) ==
  /\ ~empty(ListState(ilist), l)
  /\ ListCalled([erase_one_and_dispose(TRUE, ListState(ilist), l,
                                       make_begin_iterator(TRUE, ListState(ilist), l))
                   EXCEPT !.result = Null],
                [NoListCall EXCEPT !.op = "pop_front", !.list = l])

\* void pop_back(): erase_and_dispose(rbegin(), disposer)
ListPopBack(l) ==
  /\ ~empty(ListState(ilist), l)
  /\ ListCalled([erase_one_and_dispose(FALSE, ListState(ilist), l,
                                       make_begin_iterator(FALSE, ListState(ilist), l))
                   EXCEPT !.result = Null],
                [NoListCall EXCEPT !.op = "pop_back", !.is_forward = FALSE, !.list = l])

\* iterator erase(const_iterator i), its reverse_iterator overload, and
\* erase(const_reference v).
ListErase(l, fwd, i) ==
  /\ i \in Range(ListSeq(ListState(ilist), l))
  /\ ListCalled(erase_one_and_dispose(fwd, ListState(ilist), l, i),
                [NoListCall EXCEPT !.op = "erase", !.is_forward = fwd, !.list = l,
                                   !.value = i])

\* iterator erase(const_iterator from, const_iterator to) and its
\* reverse_iterator overload.
ListEraseRange(l, fwd, from, to) ==
  /\ ValidRange(fwd, ListState(ilist), l, from, to)
  /\ ListCalled(erase_range_and_dispose(fwd, ListState(ilist), l, from, to),
                [NoListCall EXCEPT !.op = "erase_range", !.is_forward = fwd, !.list = l,
                                   !.from = from, !.to = to])

\* size_type erase_if(Predicate predicate)
ListEraseIf(l, predicate) ==
  /\ predicate \subseteq Elems
  /\ ListCalled(erase_and_dispose_if(ListState(ilist), l, predicate),
                [NoListCall EXCEPT !.op = "erase_if", !.list = l,
                                   !.predicate = predicate])

\* void clear(): erase(begin(), end())
ListClear(l) ==
  /\ l \in ListIds
  /\ ListCalled([erase_range_and_dispose(TRUE, ListState(ilist), l,
                                         make_begin_iterator(TRUE, ListState(ilist), l),
                                         make_end_iterator(l))
                   EXCEPT !.result = Null],
                [NoListCall EXCEPT !.op = "clear", !.list = l])

\* pos is a valid iterator for list l, from and to a valid range for
\* from_list, and pos is not in the range.
CanSplice(S, l, pos, from_list, from, to) ==
  /\ pos \in Iterators(S, l)
  /\ ValidRange(TRUE, S, from_list, from, to)
  /\ pos \notin Range(Visited(TRUE, S, from, to, NumElems))

\* iterator splice(pos, from_list, from, to, n), n the distance between
\* from and to.
ListSpliceSized(l, pos, from_list, from, to) ==
  /\ CanSplice(ListState(ilist), l, pos, from_list, from, to)
  /\ ListCalled(splice_sized(ListState(ilist), l, pos, from_list, from, to,
                             distance(ListState(ilist), from, to)),
                [NoListCall EXCEPT !.op = "splice_sized", !.list = l, !.pos = pos,
                                   !.from_list = from_list, !.from = from, !.to = to,
                                   !.n = distance(ListState(ilist), from, to)])

\* iterator splice(pos, from_list, from, to)
ListSpliceRange(l, pos, from_list, from, to) ==
  /\ CanSplice(ListState(ilist), l, pos, from_list, from, to)
  /\ ListCalled(splice_range(ListState(ilist), l, pos, from_list, from, to),
                [NoListCall EXCEPT !.op = "splice_range", !.list = l, !.pos = pos,
                                   !.from_list = from_list, !.from = from, !.to = to])

\* iterator splice(pos, from_list), from_list another list.
ListSpliceAll(l, pos, from_list) ==
  /\ l # from_list
  /\ pos \in Iterators(ListState(ilist), l)
  /\ ListCalled(splice_all(ListState(ilist), l, pos, from_list),
                [NoListCall EXCEPT !.op = "splice_all", !.list = l, !.pos = pos,
                                   !.from_list = from_list])

\* iterator splice(pos, from_list, from)
ListSpliceOne(l, pos, from_list, from) ==
  /\ pos \in Iterators(ListState(ilist), l)
  /\ from \in Range(ListSeq(ListState(ilist), from_list))
  /\ pos # from
  /\ ListCalled(splice_one(ListState(ilist), l, pos, from_list, from),
                [NoListCall EXCEPT !.op = "splice_one", !.list = l, !.pos = pos,
                                   !.from_list = from_list, !.from = from])

\* void swap(OtherList& other), other another list.
ListSwap(l, other) ==
  /\ l # other
  /\ ListCalled([state |-> swap_impl(ListState(ilist), l, other), result |-> Null],
                [NoListCall EXCEPT !.op = "swap", !.list = l, !.from_list = other])

\* The caller drops the arguments and the result of its last call.
ListResultDropped ==
  /\ ilist.last # NoListCall
  /\ ilist' = [ilist EXCEPT !.last = NoListCall]
  /\ UNCHANGED non_list_vars

\* The caller holds no call's result and can make a call.
CanCall == ilist.last = NoListCall

NextList ==
  \/ /\ CanCall
     /\ \E l \in ListIds, fwd \in BOOLEAN, value \in Elems :
          \E pos \in Iterators(ListState(ilist), l) : ListInsert(l, fwd, pos, value)
  \/ CanCall /\ \E l \in ListIds, value \in Elems : ListPushFront(l, value)
  \/ CanCall /\ \E l \in ListIds, value \in Elems : ListPushBack(l, value)
  \/ CanCall /\ \E l \in ListIds : ListPopFront(l)
  \/ CanCall /\ \E l \in ListIds : ListPopBack(l)
  \/ CanCall /\ \E l \in ListIds, fwd \in BOOLEAN, i \in Elems : ListErase(l, fwd, i)
  \/ /\ CanCall
     /\ \E l \in ListIds, fwd \in BOOLEAN :
          \E from, to \in Iterators(ListState(ilist), l) :
            ListEraseRange(l, fwd, from, to)
  \/ CanCall /\ \E l \in ListIds, predicate \in SUBSET Elems : ListEraseIf(l, predicate)
  \/ CanCall /\ \E l \in ListIds : ListClear(l)
  \/ /\ CanCall
     /\ \E l, from_list \in ListIds :
          \E pos \in Iterators(ListState(ilist), l),
             from, to \in Iterators(ListState(ilist), from_list) :
            ListSpliceSized(l, pos, from_list, from, to)
  \/ /\ CanCall
     /\ \E l, from_list \in ListIds :
          \E pos \in Iterators(ListState(ilist), l),
             from, to \in Iterators(ListState(ilist), from_list) :
            ListSpliceRange(l, pos, from_list, from, to)
  \/ /\ CanCall
     /\ \E l, from_list \in ListIds :
          \E pos \in Iterators(ListState(ilist), l) : ListSpliceAll(l, pos, from_list)
  \/ /\ CanCall
     /\ \E l, from_list \in ListIds, from \in Elems :
          \E pos \in Iterators(ListState(ilist), l) :
            ListSpliceOne(l, pos, from_list, from)
  \/ CanCall /\ \E l, other \in ListIds : ListSwap(l, other)
  \/ ListResultDropped

SpecList == InitList /\ [][NextList]_vars

\* seq with the sequence ins put before iterator pos of list l.
PutBefore(seq, l, pos, ins) ==
  LET k == IF pos = make_end_iterator(l)
             THEN Len(seq) + 1
             ELSE CHOOSE j \in 1 .. Len(seq) : seq[j] = pos
  IN SubSeq(seq, 1, k - 1) \o ins \o SubSeq(seq, k, Len(seq))

\* seq without the elements of the set gone.
Without(seq, gone) ==
  LET Stays(x) == x \notin gone
  IN SelectSeq(seq, Stays)

\* seq backwards.
Backwards(seq) == [k \in 1 .. Len(seq) |-> seq[Len(seq) + 1 - k]]

\* Iterating list l from rbegin() visits the elements of the iteration from
\* begin() in the opposite order, and both iterations end at end().
Linked(S, l) ==
  LET seq == ListSeq(S, l)
  IN /\ ListSeqDir(FALSE, S, l) = Backwards(seq)
     /\ next(S, IF seq = <<>> THEN make_end_iterator(l) ELSE seq[Len(seq)])
          = make_end_iterator(l)
     /\ prev(S, IF seq = <<>> THEN make_end_iterator(l) ELSE seq[1])
          = make_end_iterator(l)

\* C22: IntrusiveList::insert(pos, value) places value immediately before
\* pos, leaves the relative order of all other elements unchanged, and
\* returns an iterator r to value such that ++r == pos; push_front and
\* push_back are insert at begin() and end() respectively.
InsertPlacesValueBeforePos ==
  [][LET c == ilist'.last
         S == ListState(ilist)
         T == ListState(ilist')
     IN /\ c.op = "insert" =>
             /\ ListSeqDir(c.is_forward, T, c.list)
                  = PutBefore(ListSeqDir(c.is_forward, S, c.list), c.list, c.pos, <<c.value>>)
             /\ Linked(T, c.list)
             /\ \A m \in ListIds \ {c.list} : ListSeq(T, m) = ListSeq(S, m)
             /\ c.result = c.value
             /\ successor(c.is_forward, T, c.result) = c.pos
        /\ c.op = "push_front" =>
             /\ ListSeq(T, c.list) = <<c.value>> \o ListSeq(S, c.list)
             /\ Linked(T, c.list)
             /\ \A m \in ListIds \ {c.list} : ListSeq(T, m) = ListSeq(S, m)
        /\ c.op = "push_back" =>
             /\ ListSeq(T, c.list) = ListSeq(S, c.list) \o <<c.value>>
             /\ Linked(T, c.list)
             /\ \A m \in ListIds \ {c.list} : ListSeq(T, m) = ListSeq(S, m)]_vars

\* insert has put element 3 before element 2, between the elements 1 and 2
\* of list 1.
InsertPlacesValueBeforePosWitness ==
  /\ ilist.last.op = "insert"
  /\ ilist.last.is_forward
  /\ ilist.last.list = 1
  /\ ilist.last.pos = 2
  /\ ilist.last.value = 3
  /\ ilist.last.result = 3
  /\ ListSeq(ListState(ilist), 1) = <<1, 3, 2>>

\* C23: for a list with has_size = true, after any sequence of inserts,
\* pushes, pops, erases, erase_if, clear, splices (all overloads, with n
\* equal to the range length) and swaps, size() equals length(), the
\* number of elements reachable from begin() to end().
SizeEqualsLength ==
  \A l \in ListIds : size(ListState(ilist), l) = length(ListState(ilist), l)

\* swap has exchanged a list of two elements and a list of one.
SizeEqualsLengthWitness ==
  /\ ilist.last.op = "swap"
  /\ size(ListState(ilist), 1) = 1
  /\ size(ListState(ilist), 2) = 2
  /\ ListSeq(ListState(ilist), 2) = <<1, 2>>
  /\ ListSeq(ListState(ilist), 1) = <<3>>

\* C24: splice(pos, from_list, from, to) removes exactly the elements of
\* [from, to) from from_list and inserts them before pos in this list in
\* their original order, leaving every other element of both lists in its
\* original relative order; this also holds when from_list is this list,
\* including the case pos == to where nothing moves.
SpliceMovesRangeBeforePos ==
  [][LET c == ilist'.last
         S == ListState(ilist)
         T == ListState(ilist')
     IN c.op = "splice_range" =>
          LET moved == Visited(TRUE, S, c.from, c.to, NumElems)
              rest(m) == Without(ListSeq(S, m), Range(moved))
          IN /\ ListSeq(T, c.list) = PutBefore(rest(c.list), c.list, c.pos, moved)
             /\ \A m \in ListIds \ {c.list} : ListSeq(T, m) = rest(m)
             /\ \A m \in ListIds \ {c.from_list} : Range(moved) \cap Range(ListSeq(S, m)) = {}
             /\ \A m \in ListIds : Linked(T, m)
             /\ (c.list = c.from_list /\ c.pos = c.to) => T = S]_vars

\* A splice within list 1 has moved its first two elements to the end.
SpliceMovesRangeBeforePosWitness ==
  /\ ilist.last.op = "splice_range"
  /\ ilist.last.list = 1
  /\ ilist.last.from_list = 1
  /\ ilist.last.from = 1
  /\ ilist.last.to = 3
  /\ ilist.last.pos = make_end_iterator(1)
  /\ ListSeq(ListState(ilist), 1) = <<3, 1, 2>>

\* The calls that remove elements.
Removals == {"erase", "erase_range", "erase_if", "clear", "pop_front", "pop_back"}

\* C25: an element's IntrusiveListEntry reports is_attached() true exactly
\* while the element is in a list: insert and splice leave it attached
\* with both links non-null, and erase, pop_front, pop_back, clear and
\* erase_if leave every removed element detached with both links null,
\* while the remaining elements keep their order.
AttachedExactlyWhileInList ==
  /\ [](\A v \in Elems :
          /\ is_attached(ListState(ilist), v) <=> ~InNoList(ListState(ilist), v)
          /\ (ilist.entry[v]._prev = Null) <=> (ilist.entry[v]._next = Null))
  /\ [][LET c == ilist'.last
            S == ListState(ilist)
            T == ListState(ilist')
            before == ListSeq(S, c.list)
            after == ListSeq(T, c.list)
        IN /\ c.op \in Removals =>
                /\ after = Without(before, Range(before) \ Range(after))
                /\ Linked(T, c.list)
                /\ \A v \in Range(before) \ Range(after) :
                     T.entry[v] = [_prev |-> Null, _next |-> Null]
                /\ \A m \in ListIds \ {c.list} : ListSeq(T, m) = ListSeq(S, m)
           /\ c.op = "erase" => after = Without(before, {c.value})
           /\ c.op = "erase_range" =>
                after = Without(before,
                                Range(Visited(c.is_forward, S, c.from, c.to, NumElems)))
           /\ c.op = "pop_front" => after = Tail(before)
           /\ c.op = "pop_back" => after = SubSeq(before, 1, Len(before) - 1)
           /\ c.op = "clear" => after = <<>>
           /\ c.op = "erase_if" =>
                /\ after = Without(before, c.predicate)
                /\ c.result = Len(before) - Len(after)]_vars

\* erase_if has removed the first and the last of three elements.
AttachedExactlyWhileInListWitness ==
  /\ ilist.last.op = "erase_if"
  /\ ilist.last.predicate = {1, 3}
  /\ ilist.last.result = 2
  /\ ListSeq(ListState(ilist), ilist.last.list) = <<2>>
  /\ ~is_attached(ListState(ilist), 1)
  /\ ~is_attached(ListState(ilist), 3)
  /\ ilist.entry[1]._next = Null
  /\ ilist.entry[3]._next = Null
  /\ InNoList(ListState(ilist), 1)
  /\ InNoList(ListState(ilist), 3)

(***************************************************************************)
(* CheckedCastImpl::check for integral types (checkedCast.hpp).  A type    *)
(* is its signedness and its sizeof; its width is CharBit bits per unit    *)
(* of sizeof, two's complement.                                            *)
(***************************************************************************)
\* Bits per unit of sizeof (CHAR_BIT, 8 in the product).
CharBit == 2
\* Largest sizeof of an integral type (8 in the product).
MaxSizeof == 3

IntegralTypes == [is_signed : BOOLEAN, sizeof : 1 .. MaxSizeof]

RECURSIVE Pow2(_)
Pow2(n) == IF n = 0 THEN 1 ELSE 2 * Pow2(n - 1)

\* The width of T in bits.
Width(T) == CharBit * T.sizeof

\* std::numeric_limits<T>::min() and max()
numeric_limits_min(T) == IF T.is_signed THEN 0 - Pow2(Width(T) - 1) ELSE 0
numeric_limits_max(T) == IF T.is_signed THEN Pow2(Width(T) - 1) - 1 ELSE Pow2(Width(T)) - 1

\* The values of type T.
ValuesOf(T) == numeric_limits_min(T) .. numeric_limits_max(T)

\* static_cast<To>(v) of an integral v: the value of To congruent to v
\* modulo 2^width, the high-order bits discarded.
static_cast(To, v) ==
  LET m == v % Pow2(Width(To))
  IN IF To.is_signed /\ m >= Pow2(Width(To) - 1) THEN m - Pow2(Width(To)) ELSE m

\* IntegerChecker<To, From> with to_signed == from_signed.
IntegerCheckerSameSign(To, From, from) ==
  \/ To.sizeof >= From.sizeof
  \/ static_cast(From, static_cast(To, from)) = from

\* IntegerChecker<To, From, true, false>: unsigned to signed.
IntegerCheckerUnsignedToSigned(To, From, from) ==
  IF From.sizeof >= To.sizeof
    THEN LET to_smax == numeric_limits_max(To)
             to_umax == static_cast(From, to_smax)
         IN from <= to_umax
    ELSE TRUE

\* A signed to unsigned check that only asks for a value that is not
\* negative.
NonNegativeOnly(To, From, from) == from >= 0

\* IntegerChecker<To, From, false, true>: signed to unsigned.
IntegerCheckerSignedToUnsigned(To, From, from) ==
  IF From.sizeof > To.sizeof
    THEN LET to_umax == numeric_limits_max(To)
             to_smax == static_cast(From, to_umax)
         IN (from >= 0) /\ (from <= to_smax)
    ELSE from >= 0

\* CheckedCastImpl::check<To>(From from) for integral To and From.
check(To, From, from) ==
  IF To.is_signed = From.is_signed
    THEN IntegerCheckerSameSign(To, From, from)
    ELSE IF To.is_signed
           THEN IntegerCheckerUnsignedToSigned(To, From, from)
           ELSE IntegerCheckerSignedToUnsigned(To, From, from)

InitCast ==
  /\ Constructed
  /\ filter = FilterNone
  /\ mode = "inline"
  /\ cards = [p \in Ptrs |-> Clean]
  /\ heap = OneAddr
  /\ live = {}
  /\ prot = NoProt
  /\ ilist = ConstructedLists

\* check<To>(from), then static_cast<From>(static_cast<To>(from)).
ApplyCheck ==
  /\ call = NoCall
  /\ \E To, From \in IntegralTypes :
       \E from \in ValuesOf(From) :
         /\ call' = [fn |-> "check", To |-> To, From |-> From, from |-> from]
         /\ ret' = [done |-> TRUE, check |-> check(To, From, from),
                    round_trip |-> static_cast(From, static_cast(To, from))]
  /\ UNCHANGED machine_vars

NextCast ==
  \/ ApplyCheck
  \/ Return

SpecCast == InitCast /\ [][NextCast]_vars

SlotsWritten(first, appended) == (appended.index + 1) .. first.index

\* C27 as stated: reset() followed by at most capacity appends followed by
\* reset() returns the written card queue to the state after the first
\* reset, index and buffer contents identical.
ResetRestoresIndexAndContents ==
  call.fn = "reset_appends_reset" => ret.wcq = call.first

\* C27: reset() followed by at most capacity appends followed by reset()
\* returns the written card queue to the empty state: the index is again the
\* index after the first reset (the current capacity), the storage in use is
\* the same, and every slot the appends did not write, the Previous filter's
\* NoMatchingCard slot included, holds what it held after the first reset.
\* reset() stores no slot, so the slots the appends wrote keep the values
\* appended.
ResetRestoresIndex ==
  call.fn = "reset_appends_reset" =>
    /\ ret.wcq.index = call.first.index
    /\ ret.wcq.index = current_capacity(ret.wcq, filter)
    /\ is_empty(ret.wcq, filter)
    /\ ret.wcq.kind = call.first.kind
    /\ ret.wcq.node = call.first.node
    /\ ret.wcq.buf = call.appended.buf
    /\ \A i \in 1 .. Len(ret.wcq.buf) :
         i \notin SlotsWritten(call.first, call.appended) =>
           ret.wcq.buf[i] = call.first.buf[i]
    /\ \A i \in SlotsWritten(call.first, call.appended) :
         ret.wcq.buf[i] \notin {Uninit, NoMatchingCard}

\* Appends between the resets that changed a slot.
ResetRestoresIndexWitness ==
  /\ call.fn = "reset_appends_reset"
  /\ call.appended.index < call.first.index
  /\ ret.wcq.index = call.first.index
  /\ ret.wcq.buf # call.first.buf


(***************************************************************************)
(* The indirect and deferred handlers on the initial buffer.               *)
(***************************************************************************)
\* C28: an indirect or deferred overflow handler that runs on a queue whose
\* buffer is the 2-slot initial buffer allocates one buffer of capacity C,
\* copies the two initial slots to positions C-2 and C-1 in the same order,
\* sets the index to C-2, and leaves buffer_list, num_cards, the card table,
\* the thread's dirty card queue and the thread's stats unchanged.
InitialBufferPromoted ==
  [][\A t \in Mutators :
       (HandlerEntry(t) /\ mode \in {"indirect", "deferred"} /\ wcq[t].kind = "initial") =>
         /\ \E id \in NodeIds \ allocated : 
              /\ allocated' = allocated \cup {id}
              /\ wcq'[t].node = id
         /\ wcq'[t].kind = "node"
         /\ Len(wcq[t].buf) = 2
         /\ Len(wcq'[t].buf) = BufferCapacity
         /\ RawCapacity(wcq'[t]) = BufferCapacity
         /\ \A i \in 0 .. 1 :
              wcq'[t].buf[(BufferCapacity - 2 + i) + 1] = wcq[t].buf[i + 1]
         /\ wcq'[t].index = BufferCapacity - 2
         /\ pc'[t] = "idle"
         /\ UNCHANGED <<buffer_list, num_cards, cards>>
         /\ dcq'[t] = dcq[t]
         /\ stats'[t] = stats[t]]_vars

\* An indirect queue on the buffer its full initial buffer was copied to;
\* no handler of the thread has marked cards.
InitialBufferPromotedWitness ==
  \E t \in Mutators :
    /\ mode = "indirect"
    /\ pc[t] = "idle"
    /\ wcq[t].kind = "node"
    /\ wcq[t].index = BufferCapacity - 2
    /\ wcq[t].buf[BufferCapacity - 1] # Uninit
    /\ wcq[t].buf[BufferCapacity] # Uninit
    /\ wcq[t].buf[BufferCapacity - 1] # wcq[t].buf[BufferCapacity]
    /\ stats[t] = ZeroStats
    /\ buffer_list = <<>>


(***************************************************************************)
(* The deferred handler's handoff of a filled buffer.                      *)
(***************************************************************************)
\* The handler's steps of thread t that hand the filled buffer to the set.
HandoffStep(t, from, to) == pc[t] = from /\ pc'[t] = to

RunsIndirectHandler == mode = "indirect" \/ (mode = "deferred" /\ should_mark)

\* What the indirect handler's entry does for thread t: the initial buffer
\* is promoted, or the stats count the buffer's entries and the index is set
\* to the capacity for the marking of the buffer in place.
IndirectEntryEffect(t) ==
  IF wcq[t].kind = "initial"
    THEN /\ wcq'[t].kind = "node"
         /\ wcq'[t].node \in allocated' \ allocated
         /\ wcq'[t].index = BufferCapacity - InitialCapacity
         /\ \A i \in 1 .. InitialCapacity :
              wcq'[t].buf[BufferCapacity - InitialCapacity + i] = wcq[t].buf[i]
         /\ pc'[t] = "idle"
         /\ loc'[t] = loc[t]
         /\ stats'[t] = stats[t]
    ELSE LET bufsize == RawCapacity(wcq[t]) - size_adjust(filter)
         IN /\ wcq'[t] = [wcq[t] EXCEPT !.index = bufsize]
            /\ stats'[t] = [stats[t] EXCEPT !.written_cards = @ + bufsize]
            /\ pc'[t] = "fence"
            /\ loc'[t].ctx = "handler"
            /\ loc'[t].size = bufsize
            /\ allocated' = allocated

\* Thread t is inside a handler that marks the cards of its buffer.
MarkingInHandler(t) ==
  /\ loc[t].ctx = "handler"
  /\ pc[t] \in {"fence", "load", "store", "finish"}

\* C30: a deferred overflow handler that runs with
\* mutator_should_mark_cards_dirty true behaves exactly as the indirect
\* handler of the same filter: its entry has the indirect handler's effect
\* (the initial buffer is promoted, or the marking of the queue's buffer
\* begins), buffer_list and num_cards are unchanged by every step of it, the
\* queue stays on its buffer, and the only cards changed are entries of the
\* queue's buffer, stored dirty by the calling mutator itself.
DeferredMarkingIsIndirect ==
  [][\A t \in Mutators :
       /\ (HandlerEntry(t) /\ RunsIndirectHandler) =>
            /\ IndirectEntryEffect(t)
            /\ UNCHANGED <<buffer_list, num_cards, cards, dcq, crdcq>>
       /\ (MarkingInHandler(t) /\ mode # "inline" /\ (pc'[t] # pc[t] \/ loc'[t] # loc[t])) =>
            /\ RunsIndirectHandler
            /\ UNCHANGED <<buffer_list, num_cards, allocated>>
            /\ wcq'[t].kind = wcq[t].kind
            /\ wcq'[t].node = wcq[t].node
            /\ wcq'[t].index = wcq[t].index
            /\ cards' # cards =>
                 /\ pc[t] = "store"
                 /\ \E i \in 1 .. Len(loc[t].written) :
                      cards' = [cards EXCEPT ![loc[t].written[i]] = Dirty]]_vars

\* A mutator in the deferred configuration ends a handler in which it
\* dirtied a card itself, with nothing handed to the set.
DeferredMarkingIsIndirectWitness ==
  \E t \in Mutators :
    /\ mode = "deferred"
    /\ should_mark
    /\ pc[t] = "finish"
    /\ loc[t].ctx = "handler"
    /\ loc[t].dirtied > 0
    /\ wcq[t].kind = "node"
    /\ buffer_list = <<>>
    /\ num_cards = 0


(***************************************************************************)
(* The order of RetireTLABAndFlushLogsClosure::do_thread's calls.          *)
(***************************************************************************)
IsPrefix(a, b) == Len(a) <= Len(b) /\ a = SubSeq(b, 1, Len(a))

\* The calls for one Java thread in the order the retirement has to make
\* them, the TLAB's retirement present when TLABs are in use.
RetireOrder(use_tlab) ==
  IF use_tlab
    THEN <<"make_parsable", "retire", "inc_written_cards", "mark_cards_dirty",
           "flush_dirty_card_queue", "collect_refinement_stats">>
    ELSE <<"make_parsable", "inc_written_cards", "mark_cards_dirty",
           "flush_dirty_card_queue", "collect_refinement_stats">>

\* C31: for each Java thread the retirement worker performs make_parsable,
\* then the TLAB's retirement (if enabled), then records the written card
\* queue's size and marks its cards dirty, then flushes the thread's dirty
\* card queue, then accumulates and resets the thread's refinement stats, in
\* that order and each step at most once per thread per pause: the calls
\* made for a thread are always a prefix of that sequence and are the whole
\* of it when the task has finished; the size recorded is the queue's size
\* before its marking, and the stats are accumulated and zeroed after the
\* dirty card queue has been flushed.
RetirementStepsInOrder ==
  /\ [](\A t \in JavaThreads : IsPrefix(task.calls[t], RetireOrder(task.UseTLAB)))
  /\ [](RetireFinished => \A t \in JavaThreads : task.calls[t] = RetireOrder(task.UseTLAB))
  /\ [][\A t \in JavaThreads : \A w \in Workers :
          /\ (task.calls[t] = <<>> /\ task'.calls[t] # <<>> /\ task'.worker[w].thread = t) =>
               /\ task'.worker[w].flushlogs_stats.written_cards =
                    task.worker[w].flushlogs_stats.written_cards + WcqSize(wcq[t], filter)
               /\ is_empty(wcq'[t], filter)
               /\ UNCHANGED <<dcq, stats>>
          /\ (task.worker[w].thread = t /\ task'.worker[w].thread # t) =>
               /\ task'.calls[t] = RetireOrder(task.UseTLAB)
               /\ DcqIsEmpty(dcq'[t])
               /\ stats'[t] = ZeroStats
               /\ task'.worker[w].mutator_stats =
                    AddStats(task.worker[w].mutator_stats, stats[t])]_vars

\* With TLABs in use, one worker has finished a thread whose written card
\* queue had an entry while the other is marking the cards of the other
\* thread.
RetirementStepsInOrderWitness ==
  /\ task.active
  /\ task.UseTLAB
  /\ \E t \in JavaThreads, u \in JavaThreads, w \in Workers :
       /\ t # u
       /\ Len(task.calls[t]) = 6
       /\ Len(task.calls[u]) = 4
       /\ task.worker[w].thread = u
       /\ task.worker[w].pc = "thread_cards"
  /\ \E w \in Workers : task.worker[w].flushlogs_stats.written_cards > 0


(***************************************************************************)
(* G1PreEvacuateCollectionSetBatchTask from its construction to its        *)
(* destruction, at a safepoint: the constructor prepares the queue sets    *)
(* and registers the sub-tasks, the work gang runs them, the destructor    *)
(* reports the stats.  The threads' refinement stats, the detached stats,  *)
(* the paused buffers and the flags are what the time before the pause     *)
(* left.                                                                   *)
(***************************************************************************)
\* Refinement stats with every counter k.
StatsOf(k) ==
  [written_cards |-> k, written_cards_dirtied |-> k, written_cards_filtered |-> k]

\* Stats of the threads that tell the threads apart in a sum.
ThreadStatsBeforePause == [t \in Threads |->
  CASE t = "m1" -> StatsOf(1) [] t = "m2" -> StatsOf(2) [] OTHER -> StatsOf(4)]

InitTask ==
  /\ filter \in Filters
  /\ mode \in {"indirect", "deferred"}
  /\ cards = [p \in Ptrs |-> Clean]
  /\ heap = TwoAddrs
  /\ live = Threads
  /\ buffer_list \in IF mode = "deferred"
                       THEN {<<>>} \cup {<<n>> : n \in RetireNodes(1, filter, cards)}
                       ELSE {<<>>}
  /\ num_cards = SumSizes(buffer_list)
  /\ allocated = NodesOf(buffer_list)
  /\ \E a \in SeqsUpTo(OneAddr, 1) :
       wcq = [t \in Threads |-> IF t \in JavaThreads
                                  THEN RetireQueue(filter, cards, a)
                                  ELSE NewWrittenCardQueue(mode, filter)]
  /\ dcq = [t \in Threads |-> IF t = "m1" THEN DcqWith(1) ELSE NullDcq]
  /\ crdcq = [t \in Refiners |-> dcq[t]]
  /\ stats = ThreadStatsBeforePause
  /\ should_mark \in IF mode = "deferred" THEN BOOLEAN ELSE {FALSE}
  /\ completed = 0
  /\ pc = [t \in Threads |-> "idle"]
  /\ loc = [t \in Threads |-> IdleLoc]
  /\ last_store = [loaded |-> Clean, before |-> Clean]
  /\ call = NoCall
  /\ ret = NoRet
  /\ prot = NoProt
  /\ ilist = ConstructedLists
  /\ \E threshold \in {"SIZE_MAX", "set by refinement"}, paused \in 0 .. 1,
        detached \in {ZeroStats, StatsOf(8)}, use_tlab \in BOOLEAN :
       task = [NoTask EXCEPT !.ctor = "start", !.UseTLAB = use_tlab,
                             !.mutator_refinement_threshold = threshold,
                             !.paused = paused, !.detached = detached]

\* A constructor that leaves mutator_should_mark_cards_dirty as it found it.
TaskPrepareKeepingFlag ==
  /\ task.ctor = "start"
  /\ completed' = completed + task.paused
  /\ task' = [task EXCEPT !.ctor = "prepared",
                          !.mutator_refinement_threshold = "SIZE_MAX",
                          !.paused = 0]
  /\ UNCHANGED <<filter, mode, heap, live, pc, loc, last_store, call, ret, prot, ilist,
                 cards, queue_vars, num_cards, buffer_list, allocated, should_mark>>

\* The constructor up to its first add_serial_task:
\* wcqs.set_mutator_should_mark_cards_dirty(false) if
\* (G1DeferDirtyingWrittenCards), dcqs.set_mutator_refinement_threshold(
\* SIZE_MAX), dcqs.enqueue_all_paused_buffers().
TaskPrepare ==
  /\ task.ctor = "start"
  /\ should_mark' = IF mode = "deferred" THEN FALSE ELSE should_mark
  /\ completed' = completed + task.paused
  /\ task' = [task EXCEPT !.ctor = "prepared",
                          !.mutator_refinement_threshold = "SIZE_MAX",
                          !.paused = 0]
  /\ UNCHANGED <<filter, mode, heap, live, pc, loc, last_store, call, ret, prot, ilist,
                 cards, queue_vars, num_cards, buffer_list, allocated>>

\* The rest of the constructor: add_serial_task(_non_java_retire_task), the
\* refinement threads' sub-task if (G1DeferDirtyingWrittenCards),
\* add_parallel_task(_java_retire_task).
TaskRegister ==
  /\ task.ctor = "prepared"
  /\ task' = [task EXCEPT
                !.ctor = "constructed",
                !.registered = <<"non_java">>
                                 \o (IF mode = "deferred" THEN <<"concurrent_refine">> ELSE <<>>)
                                 \o <<"java">>]
  /\ UNCHANGED <<task_vars, cards, queue_vars, num_cards, buffer_list, allocated, completed>>

IsRegistered(name) == \E i \in 1 .. Len(task.registered) : task.registered[i] = name

\* The work gang starts on the registered sub-tasks.
TaskRun ==
  /\ task.ctor = "constructed"
  /\ task' = [task EXCEPT
                !.ctor = "running", !.active = TRUE,
                !.cr_done = ~IsRegistered("concurrent_refine"),
                !.worker = [w \in Workers |-> [task.worker[w] EXCEPT !.pc = "claim"]]]
  /\ UNCHANGED <<task_vars, cards, queue_vars, num_cards, buffer_list, allocated, completed>>

\* sum_refinement_stats over the workers' slots.
sum_refinement_stats(field) ==
  SumStats([w \in Workers |-> task.worker[w][field]], Workers)

\* A destructor that leaves the detached stats out of the mutator stats.
MutatorStatsWithoutDetached ==
  AddStats(sum_refinement_stats("mutator_stats"), task.non_java_mutator_stats)

\* The destructor's mutator_stats: the Java sub-task's, the non-Java
\* sub-task's and dcqs.get_and_reset_detached_refinement_stats().
DestructorMutatorStats ==
  AddStats(AddStats(sum_refinement_stats("mutator_stats"), task.non_java_mutator_stats),
           task.detached)

\* ~G1PreEvacuateCollectionSetBatchTask, once every sub-task has been run:
\* policy->record_concurrent_refinement_stats(mutator_stats,
\* flushlogs_stats).  Of the flush-log stats the workers' marking counts are
\* modelled.
TaskDestroy ==
  /\ task.ctor = "running"
  /\ RetireFinished
  /\ task' = [task EXCEPT
                !.ctor = "destroyed", !.active = FALSE,
                !.detached = ZeroStats,
                !.recorded = [done |-> TRUE,
                              mutator_stats |-> DestructorMutatorStats,
                              flushlogs_stats |-> sum_refinement_stats("flushlogs_stats")]]
  /\ UNCHANGED <<task_vars, cards, queue_vars, num_cards, buffer_list, allocated, completed>>

NextTask ==
  \/ TaskPrepare
  \/ TaskRegister
  \/ TaskRun
  \/ \E w \in Workers : \E t \in JavaThreads : WorkerDoThread(w, t)
  \/ \E w \in Workers : WorkerCard(w)
  \/ \E w \in Workers : WorkerThreadFlush(w)
  \/ \E w \in Workers : WorkerClaimDone(w)
  \/ \E w \in Workers : WorkerDrainPop(w)
  \/ \E w \in Workers : WorkerDrainSub(w)
  \/ \E w \in Workers : WorkerDrainDeallocate(w)
  \/ \E w \in Workers : WorkerFlush(w)
  \/ NonJavaThreadFlushLogs
  \/ ConcurrentRefineThreadFlushLogs
  \/ TaskDestroy

SpecTask == InitTask /\ [][NextTask]_vars


\* C32: constructing the pre-evacuation task sets
\* mutator_should_mark_cards_dirty to false (when deferred dirtying is
\* enabled), sets the dirty card queue set's mutator refinement threshold to
\* SIZE_MAX and enqueues all paused buffers, all before any serial or
\* parallel sub-task is registered or run: whenever a sub-task is registered
\* or the task is running the three hold, and the step that establishes
\* them moves every paused buffer to the completed ones with no sub-task
\* registered yet.
TaskPreparedBeforeSubTasks ==
  /\ []((task.registered # <<>> \/ task.active) =>
          /\ mode = "deferred" => ~should_mark
          /\ task.mutator_refinement_threshold = "SIZE_MAX"
          /\ task.paused = 0)
  /\ [][(task.ctor = "start" /\ task'.ctor # "start") =>
          /\ mode = "deferred" => ~should_mark'
          /\ mode # "deferred" => should_mark' = should_mark
          /\ task'.mutator_refinement_threshold = "SIZE_MAX"
          /\ task'.paused = 0
          /\ completed' = completed + task.paused
          /\ task'.registered = <<>>
          /\ ~task'.active]_vars

\* With deferred dirtying the constructor has enqueued a paused buffer and
\* is about to register the sub-tasks.
TaskPreparedBeforeSubTasksWitness ==
  /\ task.ctor = "prepared"
  /\ mode = "deferred"
  /\ ~should_mark
  /\ task.mutator_refinement_threshold = "SIZE_MAX"
  /\ completed = 1
  /\ task.registered = <<>>


\* The threads whose stats a sub-task has collected.
Collected == {t \in Threads : stats[t] = ZeroStats}

\* C33: at task destruction the mutator stats passed to
\* record_concurrent_refinement_stats equal the sum of the per-thread
\* refinement stats of all Java and non-Java threads as they stood when
\* collected in this pause plus the detached stats; each thread's stats are
\* counted exactly once and are zero afterwards.  During the pause a
\* thread's stats are as before the pause or zero, and the sub-tasks'
\* mutator stats add up to the stats of exactly the threads collected.
RecordedMutatorStatsAreTheSum ==
  /\ [](task.ctor \in {"running", "destroyed"} =>
          /\ \A t \in Threads : stats[t] \in {ThreadStatsBeforePause[t], ZeroStats}
          /\ AddStats(sum_refinement_stats("mutator_stats"), task.non_java_mutator_stats)
               = SumStats(ThreadStatsBeforePause, Collected))
  /\ [][(task.ctor = "running" /\ task'.ctor = "destroyed") =>
          /\ task'.recorded.done
          /\ task'.recorded.mutator_stats =
               AddStats(SumStats(ThreadStatsBeforePause, JavaThreads \cup NonJavaThreads),
                        task.detached)
          /\ \A t \in Threads : stats'[t] = ZeroStats
          /\ task'.detached = ZeroStats]_vars

\* The task has been destroyed after a pause with detached stats: the stats
\* recorded are those of the three threads and the detached ones.
RecordedMutatorStatsAreTheSumWitness ==
  /\ task.ctor = "destroyed"
  /\ task.recorded.done
  /\ task.recorded.mutator_stats = StatsOf(15)
  /\ \E w \in Workers : task.worker[w].mutator_stats = StatsOf(1)
  /\ \E w \in Workers : task.worker[w].mutator_stats = StatsOf(2)


(***************************************************************************)
(* Who holds the buffers of the written-card allocator.                    *)
(***************************************************************************)
\* The threads whose written card queue has buffer id installed.
InstalledIn(id) == {t \in Threads : wcq[t].kind = "node" /\ wcq[t].node = id}

\* The positions of buffer id on buffer_list.
LinkedAt(id) == {i \in 1 .. Len(buffer_list) : buffer_list[i].id = id}

\* The threads that hold buffer id in a local: the node a refinement thread
\* has taken or a handler is about to enqueue, or the handler's new buffer.
TakenBy(id) == {t \in Threads : loc[t].node.id = id \/ loc[t].newid = id}

\* The threads that hold buffer id as a buffer taken from the list or newly
\* allocated, not counting a handler's pointer to the buffer of its queue.
TakenOrNewBy(id) ==
  {t \in Threads : (loc[t].ctx = "refine" /\ loc[t].node.id = id) \/ loc[t].newid = id}

\* Thread t is inside handle_full_buffer_deferred, between making old_node
\* and the store of new_buffer in the queue.
InHandoff(t) == pc[t] \in {"enq_add", "enq_push", "retarget"}

\* C34 as stated: every buffer obtained from the allocator is at all times
\* held by exactly one of a thread's written card queue, buffer_list, or a
\* thread that has taken it and not yet released it, and a released buffer
\* is neither linked on buffer_list nor installed in a queue.
BufferHeldByExactlyOne ==
  /\ \A id \in allocated :
       Cardinality(InstalledIn(id)) + Cardinality(LinkedAt(id))
         + Cardinality(TakenOrNewBy(id)) = 1
  /\ \A id \in NodeIds \ allocated :
       InstalledIn(id) = {} /\ LinkedAt(id) = {} /\ TakenOrNewBy(id) = {}

\* C34: every buffer obtained from the written-card allocator is at all
\* times held by exactly one of a thread's written card queue, buffer_list,
\* or a thread that has taken it and not yet released it, where the queue
\* of a thread inside handle_full_buffer_deferred's handoff does not count
\* as holding the buffer being handed over (its pointer is replaced by the
\* handler's last store); a buffer is released only by its one holder, a
\* thread that has taken it, abandon_completed_buffers for the list, or
\* the queue's destruction, and once released it is not linked on
\* buffer_list, not held in a local, and installed in no queue but that of
\* a thread still inside the handoff.
BufferHeldByOneButInHandoff ==
  /\ [](/\ \A id \in allocated :
             Cardinality({t \in InstalledIn(id) : ~InHandoff(t)})
               + Cardinality(LinkedAt(id)) + Cardinality(TakenBy(id)) = 1
        /\ \A id \in NodeIds \ allocated :
             /\ LinkedAt(id) = {}
             /\ TakenBy(id) = {}
             /\ \A t \in InstalledIn(id) : InHandoff(t))
  /\ [][\A id \in allocated \ allocated' :
          \/ \E t \in TakenBy(id) : pc[t] = "finish" /\ loc[t].ctx = "refine"
          \/ LinkedAt(id) # {} /\ AtSafepoint /\ buffer_list' = <<>>
          \/ \E t \in InstalledIn(id) :
               pc[t] = "finish" /\ loc[t].ctx = "detach" /\ wcq'[t].kind = "initial"]_vars

\* A refinement thread has released a buffer that the handing mutator's
\* queue still names.
BufferHeldByOneButInHandoffWitness ==
  \E t \in Mutators :
    /\ pc[t] = "retarget"
    /\ wcq[t].kind = "node"
    /\ wcq[t].node \notin allocated
    /\ loc[t].newid \in allocated


(***************************************************************************)
(* Cards enqueued by threads that mark the same card.                      *)
(***************************************************************************)
\* Thread t takes the step of enqueue_clean_cards that stores dirty into a
\* card and appends the card to its dirty card queue.
AppendStep(t) == pc[t] = "store" /\ pc'[t] # "store"

\* The card that step is about.
CardOfStep(t) == loc[t].written[loc[t].i]

\* After the step the entry last appended to the dirty card queue thread t
\* enqueues into is p.
NewestEntryAfter(t, p) ==
  LET q == IF t \in Refiners THEN crdcq'[t] ELSE dcq'[t]
  IN q.index < Len(q.buffer) /\ q.buffer[q.index + 1] = p

LoggedEntries(t) == RawCapacity(wcq[t]) - size_adjust(filter)

\* C36: every overflow handler that processes or hands off a full buffer
\* increases the thread's written_cards statistic by exactly the number of
\* logged entries in that buffer (the Previous filter's NoMatchingCard slot
\* is not counted), identically for the inline, indirect and deferred
\* flavors of each filter.
HandlersCountLoggedEntries ==
  [][\A t \in Mutators :
       (HandlerEntry(t) /\ ~(mode # "inline" /\ wcq[t].kind = "initial")) =>
         stats'[t].written_cards = stats[t].written_cards + LoggedEntries(t)]_vars


(***************************************************************************)
(* Every logged entry goes through the marking once.  An entry is pending  *)
(* from the barrier's store until a marker's transform reads it: in the    *)
(* queue of its thread, in the region a handler has taken from the queue   *)
(* and not yet transformed, in a node on its way to or from the set, or in *)
(* a node of the set's list.  A thread is marking from the transform until *)
(* the end of enqueue_clean_cards.                                         *)
(***************************************************************************)
EntryValues == Addrs \cup CardIdx \cup Ptrs \cup {NoMatchingCard, Uninit}

CountIn(s, v) == Cardinality({i \in DOMAIN s : s[i] = v})

RECURSIVE SumInts(_, _)
SumInts(f, S) ==
  IF S = {} THEN 0
  ELSE LET x == CHOOSE y \in S : TRUE IN f[x] + SumInts(f, S \ {x})

QueueEntries(t) ==
  IF InHandoff(t) THEN <<>>
  ELSE Region(wcq[t].buf, wcq[t].index, WcqSize(wcq[t], filter))

HandlerEntries(t) ==
  IF pc[t] = "fence" THEN Region(wcq[t].buf, 0, loc[t].size) ELSE <<>>

NodeEntries(n) == Region(n.buf, n.index, WcqsTransformSize(n, filter))

HeldNodeEntries(t) ==
  IF pc[t] \in {"enq_add", "enq_push", "take_sub"} THEN NodeEntries(loc[t].node) ELSE <<>>

Held(t) == QueueEntries(t) \o HandlerEntries(t) \o HeldNodeEntries(t)

PendingCount(v) ==
  SumInts([t \in Threads |-> CountIn(Held(t), v)], Threads)
  + SumInts([i \in DOMAIN buffer_list |-> CountIn(NodeEntries(buffer_list[i]), v)],
            DOMAIN buffer_list)

Marking(t) == pc[t] \in {"load", "store", "finish"}

\* The step in which thread t's marker reads its entries.
BeginsMarking(t) == ~Marking(t) /\ Marking(t)'

\* The cards of loc.written that enqueue_clean_cards has been through.
CardsVisited(t) == IF loc[t].written = <<>> THEN 0 ELSE loc[t].i - 1

\* What the step does to the pending entries.
PendingChange(v) ==
  IF abandon_post_barrier_logs_and_stats THEN 0 - PendingCount(v)
  ELSE IF \E t \in Threads : BeginsMarking(t)
    THEN 0 - CountIn(Held(CHOOSE t \in Threads : BeginsMarking(t)), v)
  ELSE IF \E t \in Threads : \E addr \in heap :
            BarrierAppend(t, addr) /\ v = LoggedValue(filter, addr)
    THEN 1
  ELSE 0

PointersOf(buf, from, n) == [k \in 1 .. n |-> CardPtr(buf[from + k])]

\* Marking from a node of the set: the last slot holds NoMatchingCard and the
\* cards are those of the slots from the node's index up to it.
SetMarkerStopsAtSentinel(t) ==
  LET n == loc[t].node
  IN /\ n.buf[Len(n.buf)] = NoMatchingCard
     /\ loc[t].written = PointersOf(n.buf, n.index, Len(n.buf) - 1 - n.index)

\* Marking from the thread's own queue: the last slot holds NoMatchingCard,
\* the index is at that slot, the transformed slots end below it, and a
\* handler's are all the slots below it.
QueueMarkerStopsAtSentinel(t) ==
  LET q == wcq[t]
      sentinel == RawCapacity(q) - 1
      n == Len(loc[t].written)
  IN /\ q.buf[sentinel + 1] = NoMatchingCard
     /\ q.index = sentinel
     /\ n <= sentinel
     /\ loc[t].written = Region(q.buf, sentinel - n, n)
     /\ loc[t].ctx = "handler" => n = sentinel

\* on_thread_detach entering mark_cards_dirty: the cards are those of the
\* slots from the index up to the last slot, none for an empty queue.
DetachMarksLoggedEntries(t) ==
  (pc[t] = "idle" /\ loc'[t].ctx = "detach") =>
    LET q == wcq[t]
        logged == RawCapacity(q) - 1 - q.index
    IN /\ loc'[t].written = PointersOf(q.buf, q.index, logged)
       /\ is_empty(q, filter) => (pc'[t] = "finish" /\ wcq'[t] = q)

\* C38: with the Previous filter no marker, of a queue, of the set or of an
\* overflow handler, makes a card pointer of the NoMatchingCard slot or
\* accesses a card derived from it: every pointer a marker works on is the
\* card of a logged card index, the markers take exactly the slots below the
\* NoMatchingCard slot, which keeps its value, and for an empty queue none.
SentinelNeverMarked ==
  /\ [](filter = FilterPrevious =>
          \A t \in Threads :
            /\ \A k \in DOMAIN loc[t].written :
                 loc[t].written[k] \in Ptrs /\ loc[t].written[k] # CardPtr(NoMatchingCard)
            /\ (Marking(t) /\ loc[t].ctx = "refine") => SetMarkerStopsAtSentinel(t)
            /\ (Marking(t) /\ loc[t].ctx \in {"handler", "detach"}) =>
                 QueueMarkerStopsAtSentinel(t))
  /\ [][filter = FilterPrevious => \A t \in Threads : DetachMarksLoggedEntries(t)]_vars

\* With the Previous filter the refinement thread is marking the two cards
\* of a node it took while a detaching mutator has found its queue empty.
SentinelNeverMarkedWitness ==
  /\ filter = FilterPrevious
  /\ \E t \in Refiners : pc[t] \in {"load", "store"} /\ Len(loc[t].written) = 2
  /\ \E t \in Mutators : pc[t] = "finish" /\ loc[t].ctx = "detach" /\ loc[t].written = <<>>


(***************************************************************************)
(* The fence on a mutator's paths to enqueue_clean_cards.                  *)
(***************************************************************************)
\* C39: a mutator that marks cards dirty from its own written card queue
\* outside a safepoint, in an overflow handler or in on_thread_detach, has
\* issued a full fence after its logged stores when it loads or stores a
\* card value.
MutatorMarkingIsFenced ==
  \A t \in Mutators :
    (loc[t].ctx \in {"handler", "detach"} /\ pc[t] \in {"load", "store"}) => loc[t].fenced


(***************************************************************************)
(* The range of threads_needed.                                            *)
(***************************************************************************)
\* The controller update was called on had not been updated before.
FirstUpdate == call.ctl = NewThreadsNeeded(call.ctl.update_period_ms)

\* C40: after every call of update, whatever the arguments and the
\* predictions, threads_needed is at least 1 and at most UINT_MAX, also for
\* the first call, before which threads_needed is 0.
ThreadsNeededInRange ==
  IsUpdate =>
    /\ ret.ctl.threads_needed >= 1
    /\ ret.ctl.threads_needed <= UintMax
    /\ FirstUpdate => call.ctl.threads_needed = 0

\* A first call whose accumulated need is above UINT_MAX + 1.
ThreadsNeededInRangeWitness ==
  /\ IsUpdate
  /\ FirstUpdate
  /\ call.ctl.threads_needed = 0
  /\ ret.path = "full"
  /\ ret.nthreads.n > (UintMax + 1) * ret.nthreads.d
  /\ ret.ctl.threads_needed = UintMax
====
